---- MODULE Spec2Model ----
(***************************************************************************)
(* Student behaviour tracking: the debounced hand-raise / looking-away     *)
(* detectors (gesture_detection.py), the per-frame pipeline and the        *)
(* session report of the three shells (behavior_tracking.py command line,  *)
(* gui_desktop_app.py desktop, web_app.py web).                            *)
(*                                                                         *)
(* Time is counted in ticks of half a second (TicksPerSecond); every       *)
(* datetime.now() read inside one frame falls into the same tick.  An      *)
(* optional timestamp (Python None or a datetime) is the empty sequence or *)
(* a one-element sequence.                                                 *)
(***************************************************************************)
EXTENDS Integers, Sequences, FiniteSets, TLC

VARIABLES
    shell,                   \* which program runs: "cli", "gui", "web", or a harness
                             \* calling one detector ("hand_unit", "face_unit")
    now,                     \* the wall clock, in ticks
    students,                \* DatabaseManager: student_id's of the students table
    is_monitoring,           \* the frame loop is active (cli: inside `while True`)
    paused,                  \* cli: the local `paused`
    loop_alive,              \* gui: the monitoring thread has not left its loop
    camera,                  \* "none", "open", "unavailable" or "released"
    session_start_time,      \* optional timestamp
    active_students,         \* student_id -> record
    student_keys,            \* insertion order of the active_students dict
    attendance_marked,       \* set of student_id
    hand_detector,           \* HandGestureDetector debounce state
    face_movement_detector,  \* FaceMovementDetector debounce state
    attendance_log,          \* db.mark_attendance calls, in order
    behavior_logs,           \* db.log_behavior rows, in order
    session_no,              \* observer: number of sessions started
    reports,                 \* observer: session of each report generation
    frames_done,             \* observer: number of frames processed
    call,                    \* observer: the last operation and its inputs
    hand_obs,                \* observer: raw hand signal runs and confirmations
    away_obs,                \* observer: raw looking-away runs and confirmations
    threads,                 \* gui/web: position of each frame-loop thread
    reader,                  \* gui/web: position of the request handler in progress
    boundaries,              \* observer: statistics as they stood between frames
    student_rows,            \* DatabaseManager: rows of the students table, in order
    known_student_ids        \* FaceRecognitionSystem: student_id of each face encoding

detVars == <<hand_detector, face_movement_detector>>
obsVars == <<hand_obs, away_obs>>
shellVars == <<students, is_monitoring, paused, loop_alive, camera, session_start_time>>
recVars == <<active_students, student_keys, attendance_marked>>
dbVars == <<attendance_log, behavior_logs>>
ghostVars == <<session_no, reports, frames_done, call>>
thrVars == <<threads, reader, boundaries>>
regVars == <<student_rows, known_student_ids>>

vars == <<shell, now, shellVars, recVars, detVars, dbVars, ghostVars, obsVars,
          thrVars, regVars>>

----------------------------------------------------------------------------
\* Resolution of the clock: ticks per second
TicksPerSecond == 2

\* Last clock reading of the detector harness
MaxTime == 15

\* gesture_detection.py: thresholds of the two detectors, in ticks
hand_raise_duration_threshold == 1 * TicksPerSecond     \* 1.0 seconds
hand_cooldown_period == 3 * TicksPerSecond              \* 3.0 seconds
looking_away_threshold == 2 * TicksPerSecond            \* 2.0 seconds
face_cooldown_period == 5 * TicksPerSecond              \* 5.0 seconds

None == <<>>
Some(t) == <<t>>
OptTime == {None} \cup {Some(t) : t \in 0..MaxTime}

----------------------------------------------------------------------------
\* HandGestureDetector.__init__, the debounce fields
HandGestureDetector ==
    [hand_raised |-> FALSE,
     hand_raise_start_time |-> None,
     hand_raise_count |-> 0,
     last_hand_raise_time |-> None]

\* FaceMovementDetector.__init__, the debounce fields
FaceMovementDetector ==
    [is_looking_away |-> FALSE,
     looking_away_start_time |-> None,
     looking_away_count |-> 0,
     last_looking_away_time |-> None]

\* Faulty variant: the sustain test is dropped, a second true call confirms at once
update_hand_raise_count_NoSustain(self, hand_raised, current_time) ==
    IF hand_raised
    THEN IF ~self.hand_raised
         THEN [det |-> [self EXCEPT !.hand_raised = TRUE,
                                    !.hand_raise_start_time = Some(current_time)],
               ret |-> FALSE]
         ELSE IF /\ self.hand_raise_start_time # None
                 /\ \/ self.last_hand_raise_time = None
                    \/ current_time - self.last_hand_raise_time[1] >= hand_cooldown_period
              THEN [det |-> [self EXCEPT !.hand_raise_count = @ + 1,
                                         !.last_hand_raise_time = Some(current_time),
                                         !.hand_raise_start_time = None],
                    ret |-> TRUE]
              ELSE [det |-> self, ret |-> FALSE]
    ELSE [det |-> [self EXCEPT !.hand_raised = FALSE,
                               !.hand_raise_start_time = None],
          ret |-> FALSE]

\* Faulty variant: the cooldown test is dropped
update_hand_raise_count_NoCooldown(self, hand_raised, current_time) ==
    IF hand_raised
    THEN IF ~self.hand_raised
         THEN [det |-> [self EXCEPT !.hand_raised = TRUE,
                                    !.hand_raise_start_time = Some(current_time)],
               ret |-> FALSE]
         ELSE IF /\ self.hand_raise_start_time # None
                 /\ current_time - self.hand_raise_start_time[1] >= hand_raise_duration_threshold
              THEN [det |-> [self EXCEPT !.hand_raise_count = @ + 1,
                                         !.last_hand_raise_time = Some(current_time),
                                         !.hand_raise_start_time = None],
                    ret |-> TRUE]
              ELSE [det |-> self, ret |-> FALSE]
    ELSE [det |-> [self EXCEPT !.hand_raised = FALSE,
                               !.hand_raise_start_time = None],
          ret |-> FALSE]

\* Faulty variant: a confirmation restarts the episode timer instead of clearing it
update_hand_raise_count_Retime(self, hand_raised, current_time) ==
    IF hand_raised
    THEN IF ~self.hand_raised
         THEN [det |-> [self EXCEPT !.hand_raised = TRUE,
                                    !.hand_raise_start_time = Some(current_time)],
               ret |-> FALSE]
         ELSE IF /\ self.hand_raise_start_time # None
                 /\ current_time - self.hand_raise_start_time[1] >= hand_raise_duration_threshold
                 /\ \/ self.last_hand_raise_time = None
                    \/ current_time - self.last_hand_raise_time[1] >= hand_cooldown_period
              THEN [det |-> [self EXCEPT !.hand_raise_count = @ + 1,
                                         !.last_hand_raise_time = Some(current_time),
                                         !.hand_raise_start_time = Some(current_time)],
                    ret |-> TRUE]
              ELSE [det |-> self, ret |-> FALSE]
    ELSE [det |-> [self EXCEPT !.hand_raised = FALSE,
                               !.hand_raise_start_time = None],
          ret |-> FALSE]

\* Faulty variant: the duration must exceed the threshold (> for >=)
update_hand_raise_count_StrictSustain(self, hand_raised, current_time) ==
    IF hand_raised
    THEN IF ~self.hand_raised
         THEN [det |-> [self EXCEPT !.hand_raised = TRUE,
                                    !.hand_raise_start_time = Some(current_time)],
               ret |-> FALSE]
         ELSE IF /\ self.hand_raise_start_time # None
                 /\ current_time - self.hand_raise_start_time[1] > hand_raise_duration_threshold
                 /\ \/ self.last_hand_raise_time = None
                    \/ current_time - self.last_hand_raise_time[1] >= hand_cooldown_period
              THEN [det |-> [self EXCEPT !.hand_raise_count = @ + 1,
                                         !.last_hand_raise_time = Some(current_time),
                                         !.hand_raise_start_time = None],
                    ret |-> TRUE]
              ELSE [det |-> self, ret |-> FALSE]
    ELSE [det |-> [self EXCEPT !.hand_raised = FALSE,
                               !.hand_raise_start_time = None],
          ret |-> FALSE]

\* HandGestureDetector.update_hand_raise_count: the new detector state and
\* the returned flag (True: a new hand raise is confirmed by this call)
update_hand_raise_count(self, hand_raised, current_time) ==
    IF hand_raised
    THEN IF ~self.hand_raised
         THEN [det |-> [self EXCEPT !.hand_raised = TRUE,
                                    !.hand_raise_start_time = Some(current_time)],
               ret |-> FALSE]
         ELSE IF /\ self.hand_raise_start_time # None
                 /\ current_time - self.hand_raise_start_time[1] >= hand_raise_duration_threshold
                 /\ \/ self.last_hand_raise_time = None
                    \/ current_time - self.last_hand_raise_time[1] >= hand_cooldown_period
              THEN [det |-> [self EXCEPT !.hand_raise_count = @ + 1,
                                         !.last_hand_raise_time = Some(current_time),
                                         !.hand_raise_start_time = None],
                    ret |-> TRUE]
              ELSE [det |-> self, ret |-> FALSE]
    ELSE [det |-> [self EXCEPT !.hand_raised = FALSE,
                               !.hand_raise_start_time = None],
          ret |-> FALSE]

\* FaceMovementDetector.update_looking_away_count
update_looking_away_count(self, looking_away, current_time) ==
    IF looking_away
    THEN IF ~self.is_looking_away
         THEN [det |-> [self EXCEPT !.is_looking_away = TRUE,
                                    !.looking_away_start_time = Some(current_time)],
               ret |-> FALSE]
         ELSE IF /\ self.looking_away_start_time # None
                 /\ current_time - self.looking_away_start_time[1] >= looking_away_threshold
                 /\ \/ self.last_looking_away_time = None
                    \/ current_time - self.last_looking_away_time[1] >= face_cooldown_period
              THEN [det |-> [self EXCEPT !.looking_away_count = @ + 1,
                                         !.last_looking_away_time = Some(current_time),
                                         !.looking_away_start_time = None],
                    ret |-> TRUE]
              ELSE [det |-> self, ret |-> FALSE]
    ELSE [det |-> [self EXCEPT !.is_looking_away = FALSE,
                               !.looking_away_start_time = None],
          ret |-> FALSE]

----------------------------------------------------------------------------
\* Observer of one raw signal: the start of the current maximal run of
\* inputs with signal = true, the confirmations returned inside that run,
\* and every confirmation with its time and the run it fell into.
NoRun == [run_start |-> None, run_confirms |-> 0, confirmed |-> <<>>]

Observe(obs, signal, t, ret) ==
    LET start == IF signal
                 THEN (IF obs.run_start = None THEN Some(t) ELSE obs.run_start)
                 ELSE None
        before == IF signal /\ obs.run_start # None THEN obs.run_confirms ELSE 0
    IN  [run_start |-> start,
         run_confirms |-> IF signal THEN before + (IF ret THEN 1 ELSE 0) ELSE 0,
         confirmed |-> IF ret
                       THEN Append(obs.confirmed, [at |-> t, run_start |-> start])
                       ELSE obs.confirmed]


----------------------------------------------------------------------------
\* Inputs of one frame, as the external collaborators deliver them.
Students == {"s1", "s2"}
NoId == "None"

Range(seq) == {seq[i] : i \in 1..Len(seq)}

\* face_recognition: the student_id of every detection in the frame, in
\* order; NoId is a face that matches no known student.
FrameDetections ==
    {<<>>, <<"s1">>, <<NoId, "s2", "s1", "s1">>}

\* MediaPipe hands: no hand, a hand that is not raised, a raised hand.
HandInputs == {"none", "lowered", "raised"}

\* MediaPipe face mesh and solvePnP: no face, a face whose pose solve
\* fails, or a face with (yaw, pitch) in degrees.
Poses == {[yaw |-> 30, pitch |-> 0], [yaw |-> 0 - 5, pitch |-> 5]}
NoFace == [face |-> FALSE, head_pose |-> None]
FaceNoPose == [face |-> TRUE, head_pose |-> None]
FaceInputs == {NoFace, FaceNoPose} \cup {[face |-> TRUE, head_pose |-> Some(p)] : p \in Poses}

\* The frames of the pipeline model: every combination of the inputs
PipelineFrames ==
    [recognized_students : FrameDetections, hand : HandInputs, face : FaceInputs]

\* The frames of the shell model: without a lowered hand and a failed pose
ShellFrames ==
    {f \in PipelineFrames : f.hand # "lowered" /\ f.face # FaceNoPose}

\* Attention scores are kept in half points, the unit in which the float
\* (yaw_score + pitch_score) / 2 of integer degrees is exact.
Points(p) == p + p

\* FaceMovementDetector.__init__: head pose thresholds, degrees
yaw_threshold == 20
pitch_threshold == 15

abs(x) == IF x < 0 THEN 0 - x ELSE x
max(a, b) == IF a >= b THEN a ELSE b

\* HandGestureDetector.detect_hands: hand_data of the frame
detect_hands(hand) ==
    [hands_detected |-> hand # "none",
     hand_raised |-> hand = "raised"]

\* Faulty variant: the scores are not clamped at 0
detect_face_movement_NoClamp(face) ==
    IF face.face /\ face.head_pose # None
    THEN LET yaw == face.head_pose[1].yaw
             pitch == face.head_pose[1].pitch
             yaw_score == 100 - abs(yaw) * 2
             pitch_score == 100 - abs(pitch) * 3
         IN  [face_detected |-> TRUE,
              head_pose |-> face.head_pose,
              looking_away |-> (abs(yaw) > yaw_threshold \/ abs(pitch) > pitch_threshold),
              attention_score |-> yaw_score + pitch_score]
    ELSE [face_detected |-> face.face,
          head_pose |-> None,
          looking_away |-> FALSE,
          attention_score |-> 0]

\* Faulty variant: the comparisons with the thresholds are not strict
detect_face_movement_NonStrict(face) ==
    IF face.face /\ face.head_pose # None
    THEN LET yaw == face.head_pose[1].yaw
             pitch == face.head_pose[1].pitch
             yaw_score == max(0, 100 - abs(yaw) * 2)
             pitch_score == max(0, 100 - abs(pitch) * 3)
         IN  [face_detected |-> TRUE,
              head_pose |-> face.head_pose,
              looking_away |-> (abs(yaw) >= yaw_threshold \/ abs(pitch) >= pitch_threshold),
              attention_score |-> yaw_score + pitch_score]
    ELSE [face_detected |-> face.face,
          head_pose |-> None,
          looking_away |-> FALSE,
          attention_score |-> 0]

\* Faulty variant: the attention score is the yaw score alone
detect_face_movement_YawOnly(face) ==
    IF face.face /\ face.head_pose # None
    THEN LET yaw == face.head_pose[1].yaw
             pitch == face.head_pose[1].pitch
             yaw_score == max(0, 100 - abs(yaw) * 2)
         IN  [face_detected |-> TRUE,
              head_pose |-> face.head_pose,
              looking_away |-> (abs(yaw) > yaw_threshold \/ abs(pitch) > pitch_threshold),
              attention_score |-> yaw_score + yaw_score]
    ELSE [face_detected |-> face.face,
          head_pose |-> None,
          looking_away |-> FALSE,
          attention_score |-> 0]

\* FaceMovementDetector.detect_face_movement: face_data of the frame
detect_face_movement(face) ==
    IF face.face /\ face.head_pose # None
    THEN LET yaw == face.head_pose[1].yaw
             pitch == face.head_pose[1].pitch
             yaw_score == max(0, 100 - abs(yaw) * 2)
             pitch_score == max(0, 100 - abs(pitch) * 3)
         IN  [face_detected |-> TRUE,
              head_pose |-> face.head_pose,
              looking_away |-> (abs(yaw) > yaw_threshold \/ abs(pitch) > pitch_threshold),
              attention_score |-> yaw_score + pitch_score]
    ELSE [face_detected |-> face.face,
          head_pose |-> None,
          looking_away |-> FALSE,
          attention_score |-> 0]

----------------------------------------------------------------------------
\* Calendar: date.today().isoformat() and strftime("%H:%M:%S") of a tick
TicksPerDay == 24 * 3600 * TicksPerSecond
DateOf(t) == t \div TicksPerDay
TimeOfDay(t) == (t % TicksPerDay) \div TicksPerSecond

\* The mutable session state a frame works on, as one record
Session ==
    [active_students |-> active_students,
     student_keys |-> student_keys,
     attendance_marked |-> attendance_marked,
     hand_detector |-> hand_detector,
     face_movement_detector |-> face_movement_detector,
     attendance_log |-> attendance_log,
     session_no |-> session_no]

\* _process_frame: the dict literal of a new student
NewStudent(current_time) ==
    [first_seen |-> current_time,
     last_seen |-> current_time,
     hand_raises |-> 0,
     looking_away_count |-> 0,
     attention_scores |-> <<>>,
     total_frames |-> 0]

\* Faulty variant: the student is never entered into attendance_marked
SeeStudent_NoLedger(S, student_id, current_time) ==
    LET is_new == student_id \notin DOMAIN S.active_students
        created == IF is_new
                   THEN S.active_students @@ (student_id :> NewStudent(current_time))
                   ELSE S.active_students
    IN  [S EXCEPT
           !.active_students =
               [created EXCEPT ![student_id].last_seen = current_time,
                               ![student_id].total_frames = @ + 1],
           !.student_keys = IF is_new THEN Append(@, student_id) ELSE @,
           !.attendance_log =
               IF student_id \notin S.attendance_marked
               THEN Append(@, [student_id |-> student_id,
                               date |-> DateOf(current_time),
                               time_in |-> TimeOfDay(current_time),
                               session |-> S.session_no])
               ELSE @]

\* Faulty variant: the test `if student_id not in self.active_students` is
\* missing, every sighting stores a fresh record
SeeStudent_Recreate(S, student_id, current_time) ==
    LET created == [id \in DOMAIN S.active_students \cup {student_id} |->
                       IF id = student_id THEN NewStudent(current_time)
                                          ELSE S.active_students[id]]
        mark == student_id \notin S.attendance_marked
    IN  [S EXCEPT
           !.active_students =
               [created EXCEPT ![student_id].last_seen = current_time,
                               ![student_id].total_frames = @ + 1],
           !.student_keys = IF student_id \notin DOMAIN S.active_students
                            THEN Append(@, student_id) ELSE @,
           !.attendance_marked = IF mark THEN @ \cup {student_id} ELSE @,
           !.attendance_log =
               IF mark
               THEN Append(@, [student_id |-> student_id,
                               date |-> DateOf(current_time),
                               time_in |-> TimeOfDay(current_time),
                               session |-> S.session_no])
               ELSE @]

\* Faulty variant: a sighting stores the time in first_seen, not last_seen
SeeStudent_SwapSeen(S, student_id, current_time) ==
    LET is_new == student_id \notin DOMAIN S.active_students
        created == IF is_new
                   THEN S.active_students @@ (student_id :> NewStudent(current_time))
                   ELSE S.active_students
        mark == student_id \notin S.attendance_marked
    IN  [S EXCEPT
           !.active_students =
               [created EXCEPT ![student_id].first_seen = current_time,
                               ![student_id].total_frames = @ + 1],
           !.student_keys = IF is_new THEN Append(@, student_id) ELSE @,
           !.attendance_marked = IF mark THEN @ \cup {student_id} ELSE @,
           !.attendance_log =
               IF mark
               THEN Append(@, [student_id |-> student_id,
                               date |-> DateOf(current_time),
                               time_in |-> TimeOfDay(current_time),
                               session |-> S.session_no])
               ELSE @]

\* Faulty variant: attendance is marked only for a student whose record
\* already exists
SeeStudent_MarkOnReturn(S, student_id, current_time) ==
    LET is_new == student_id \notin DOMAIN S.active_students
        created == IF is_new
                   THEN S.active_students @@ (student_id :> NewStudent(current_time))
                   ELSE S.active_students
        mark == ~is_new /\ student_id \notin S.attendance_marked
    IN  [S EXCEPT
           !.active_students =
               [created EXCEPT ![student_id].last_seen = current_time,
                               ![student_id].total_frames = @ + 1],
           !.student_keys = IF is_new THEN Append(@, student_id) ELSE @,
           !.attendance_marked = IF mark THEN @ \cup {student_id} ELSE @,
           !.attendance_log =
               IF mark
               THEN Append(@, [student_id |-> student_id,
                               date |-> DateOf(current_time),
                               time_in |-> TimeOfDay(current_time),
                               session |-> S.session_no])
               ELSE @]

\* _process_frame, body of `for student in recognized_students` for a
\* detection with a student_id: create, update last seen, mark attendance
SeeStudent(S, student_id, current_time) ==
    LET is_new == student_id \notin DOMAIN S.active_students
        created == IF is_new
                   THEN S.active_students @@ (student_id :> NewStudent(current_time))
                   ELSE S.active_students
        mark == student_id \notin S.attendance_marked
    IN  [S EXCEPT
           !.active_students =
               [created EXCEPT ![student_id].last_seen = current_time,
                               ![student_id].total_frames = @ + 1],
           !.student_keys = IF is_new THEN Append(@, student_id) ELSE @,
           !.attendance_marked = IF mark THEN @ \cup {student_id} ELSE @,
           !.attendance_log =
               IF mark
               THEN Append(@, [student_id |-> student_id,
                               date |-> DateOf(current_time),
                               time_in |-> TimeOfDay(current_time),
                               session |-> S.session_no])
               ELSE @]

\* Faulty variant: the test `if student['student_id']` is missing
RECURSIVE UpdateActiveStudents_NoSkip(_, _, _)
UpdateActiveStudents_NoSkip(S, recognized_students, current_time) ==
    IF recognized_students = <<>>
    THEN S
    ELSE UpdateActiveStudents_NoSkip(
             SeeStudent(S, Head(recognized_students), current_time),
             Tail(recognized_students), current_time)

\* _process_frame, `for student in recognized_students: if student['student_id']`
RECURSIVE UpdateActiveStudents(_, _, _)
UpdateActiveStudents(S, recognized_students, current_time) ==
    IF recognized_students = <<>>
    THEN S
    ELSE LET student_id == Head(recognized_students)
         IN  UpdateActiveStudents(
                 IF student_id # NoId THEN SeeStudent(S, student_id, current_time) ELSE S,
                 Tail(recognized_students), current_time)

\* Faulty variant: only the first student of the dict is credited
AttributeHandRaise_FirstOnly(records, keys) ==
    [id \in DOMAIN records |->
        IF keys # <<>> /\ id = keys[1]
        THEN [records[id] EXCEPT !.hand_raises = @ + 1]
        ELSE records[id]]

\* _process_frame: `for student_id in self.active_students.keys(): hand_raises += 1`
AttributeHandRaise(records, keys) ==
    [id \in DOMAIN records |-> [records[id] EXCEPT !.hand_raises = @ + 1]]

\* _process_frame: `for student_id in ...: looking_away_count += 1`
AttributeLookingAway(records, keys) ==
    [id \in DOMAIN records |-> [records[id] EXCEPT !.looking_away_count = @ + 1]]

\* Faulty variant: the score is put in front of the earlier samples
AppendAttention_Prepend(records, score) ==
    [id \in DOMAIN records |->
        [records[id] EXCEPT !.attention_scores = <<score>> \o @]]

\* _process_frame: `for student_id in ...: attention_scores.append(score)`
AppendAttention(records, score) ==
    [id \in DOMAIN records |->
        [records[id] EXCEPT !.attention_scores = Append(@, score)]]

\* _process_frame, step 2: hand gesture detection
HandStep(S, hand_data, current_time) ==
    IF hand_data.hands_detected
    THEN IF hand_data.hand_raised
         THEN LET r == update_hand_raise_count(S.hand_detector, TRUE, current_time)
              IN  [S EXCEPT !.hand_detector = r.det,
                            !.active_students =
                                IF r.ret THEN AttributeHandRaise(@, S.student_keys) ELSE @]
         ELSE [S EXCEPT !.hand_detector =
                            update_hand_raise_count(@, FALSE, current_time).det]
    ELSE S

\* Faulty variant: a frame without a face feeds the detector with False
FaceStep_FeedAbsent(S, face_data, current_time) ==
    IF face_data.face_detected
    THEN LET scored == AppendAttention(S.active_students, face_data.attention_score)
         IN  IF face_data.looking_away
             THEN LET r == update_looking_away_count(S.face_movement_detector, TRUE,
                                                     current_time)
                  IN  [S EXCEPT !.face_movement_detector = r.det,
                                !.active_students =
                                    IF r.ret
                                    THEN AttributeLookingAway(scored, S.student_keys)
                                    ELSE scored]
             ELSE [S EXCEPT !.face_movement_detector =
                                update_looking_away_count(@, FALSE, current_time).det,
                            !.active_students = scored]
    ELSE [S EXCEPT !.face_movement_detector =
                       update_looking_away_count(@, FALSE, current_time).det]

\* _process_frame, step 3: face movement detection
FaceStep(S, face_data, current_time) ==
    IF face_data.face_detected
    THEN LET scored == AppendAttention(S.active_students, face_data.attention_score)
         IN  IF face_data.looking_away
             THEN LET r == update_looking_away_count(S.face_movement_detector, TRUE,
                                                     current_time)
                  IN  [S EXCEPT !.face_movement_detector = r.det,
                                !.active_students =
                                    IF r.ret
                                    THEN AttributeLookingAway(scored, S.student_keys)
                                    ELSE scored]
             ELSE [S EXCEPT !.face_movement_detector =
                                update_looking_away_count(@, FALSE, current_time).det,
                            !.active_students = scored]
    ELSE S

\* BehaviorTrackingSystem._process_frame (and its copies
\* BehaviorTrackingGUI.process_frame, web_app.process_frame)
process_frame(S, recognized_students, hand, face, current_time) ==
    LET S1 == UpdateActiveStudents(S, recognized_students, current_time)
        S2 == HandStep(S1, detect_hands(hand), current_time)
    IN  FaceStep(S2, detect_face_movement(face), current_time)

\* DatabaseManager.mark_attendance, INSERT OR REPLACE under
\* UNIQUE(student_id, date): the row of (student_id, date) after the calls
\* of the log is the one written by the last of them
AttendanceRow(log, student_id, date) ==
    LET calls == {i \in 1..Len(log) :
                     log[i].student_id = student_id /\ log[i].date = date}
    IN  IF calls = {} THEN None
        ELSE Some(log[CHOOSE i \in calls : \A j \in calls : j <= i].time_in)

----------------------------------------------------------------------------
\* Exact fractions <<numerator, denominator>> in lowest terms, for means
RECURSIVE Gcd(_, _)
Gcd(a, b) == IF b = 0 THEN a ELSE Gcd(b, a % b)

Frac(n, d) == LET g == Gcd(n, d) IN IF g = 0 THEN <<0, 1>> ELSE <<n \div g, d \div g>>

RECURSIVE Sum(_)
Sum(s) == IF s = <<>> THEN 0 ELSE Head(s) + Sum(Tail(s))

\* Faulty variant: the mean leaves out the last sample
np_mean_DropLast(scores) ==
    LET s == SubSeq(scores, 1, Len(scores) - 1)
    IN  Frac(Sum(s), max(1, Len(s)))

\* numpy.mean of a non-empty list
np_mean(scores) == Frac(Sum(scores), Len(scores))

\* Faulty variant: the duration is rounded up to whole seconds
whole_seconds_RoundUp(ticks) == (ticks + TicksPerSecond - 1) \div TicksPerSecond

\* int(timedelta.total_seconds()): truncation toward zero
whole_seconds(ticks) ==
    IF ticks >= 0 THEN ticks \div TicksPerSecond ELSE 0 - ((0 - ticks) \div TicksPerSecond)

\* Faulty variant: every report adds its running number to hand_raises
BehaviorRow_Running(student_id, data, session_date, session, report) ==
    [student_id |-> student_id,
     session_date |-> session_date,
     attention_score |-> IF data.attention_scores # <<>>
                         THEN np_mean(data.attention_scores)
                         ELSE Frac(0, 1),
     hand_raises |-> data.hand_raises + report,
     looking_away_count |-> data.looking_away_count,
     total_duration |-> whole_seconds(data.last_seen - data.first_seen),
     session |-> session,
     report |-> report]

\* _save_session_report: the log_behavior call made for one student
BehaviorRow(student_id, data, session_date, session, report) ==
    [student_id |-> student_id,
     session_date |-> session_date,
     attention_score |-> IF data.attention_scores # <<>>
                         THEN np_mean(data.attention_scores)
                         ELSE Frac(0, 1),
     hand_raises |-> data.hand_raises,
     looking_away_count |-> data.looking_away_count,
     total_duration |-> whole_seconds(data.last_seen - data.first_seen),
     session |-> session,
     report |-> report]

\* _save_session_report: `for student_id, data in self.active_students.items()`
ReportRows(records, keys, session_date, session, report) ==
    [i \in 1..Len(keys) |->
        BehaviorRow(keys[i], records[keys[i]], session_date, session, report)]

\* Faulty variant: reset_count forgets hand_raise_start_time
hand_reset_count_KeepStart(self) ==
    [self EXCEPT !.hand_raise_count = 0,
                 !.hand_raised = FALSE,
                 !.last_hand_raise_time = None]

\* Faulty variant: reset_count leaves hand_raise_count
hand_reset_count_KeepCount(self) ==
    [self EXCEPT !.hand_raised = FALSE,
                 !.hand_raise_start_time = None,
                 !.last_hand_raise_time = None]

\* Faulty variant: reset_count leaves last_hand_raise_time
hand_reset_count_KeepCooldown(self) ==
    [self EXCEPT !.hand_raise_count = 0,
                 !.hand_raised = FALSE,
                 !.hand_raise_start_time = None]

\* HandGestureDetector.reset_count
hand_reset_count(self) ==
    [self EXCEPT !.hand_raise_count = 0,
                 !.hand_raised = FALSE,
                 !.hand_raise_start_time = None,
                 !.last_hand_raise_time = None]

\* FaceMovementDetector.reset_count
face_reset_count(self) ==
    [self EXCEPT !.looking_away_count = 0,
                 !.is_looking_away = FALSE,
                 !.looking_away_start_time = None,
                 !.last_looking_away_time = None]

----------------------------------------------------------------------------
\* Bounds of the shell model
MaxClock == 2
MaxFrames == 2
MaxSessions == 2
MaxReports == 2

\* Frame-loop threads that can exist at once
MaxThreads == 2

ThreadIds == 1..MaxThreads

\* A thread slot that holds no running thread
NoThread == [pc |-> "none"]

\* No request handler is in progress
Idle == [op |-> "idle"]

\* The students table and the face encodings of an installation whose
\* students were registered with their faces
EnrolledRows ==
    <<[student_id |-> "s1", name |-> "Ann"], [student_id |-> "s2", name |-> "Bob"]>>

Enrolled ==
    /\ student_rows = IF students = {} THEN <<>> ELSE EnrolledRows
    /\ known_student_ids = IF students = {} THEN <<>> ELSE <<"s1", "s2">>

\* No frame-loop thread and no request handler exists
NoThreads ==
    /\ threads = [t \in ThreadIds |-> NoThread]
    /\ reader = Idle
    /\ boundaries = {}

Shells == {"cli", "gui", "web"}
Units == {"hand_unit", "face_unit"}

\* BehaviorTrackingSystem.__init__ / BehaviorTrackingGUI.__init__ / the
\* module globals of web_app.py; the students table is whatever the
\* database file holds.
Init ==
    /\ shell \in Shells
    /\ now = 0
    /\ students \in {{}, Students}
    /\ is_monitoring = FALSE
    /\ paused = FALSE
    /\ loop_alive = FALSE
    /\ camera = "none"
    /\ session_start_time = None
    /\ active_students = <<>>
    /\ student_keys = <<>>
    /\ attendance_marked = {}
    /\ hand_detector = HandGestureDetector
    /\ face_movement_detector = FaceMovementDetector
    /\ attendance_log = <<>>
    /\ behavior_logs = <<>>
    /\ session_no = 0
    /\ reports = <<>>
    /\ frames_done = 0
    /\ call = [op |-> "init"]
    /\ hand_obs = NoRun
    /\ away_obs = NoRun
    /\ NoThreads
    /\ Enrolled

\* The clock advances between operations
Tick(limit) ==
    /\ now < limit
    /\ now' = now + 1
    /\ UNCHANGED <<shell, regVars, thrVars, shellVars, recVars, detVars, dbVars, ghostVars, obsVars>>

\* One frame through process_frame, with the observers brought up to date
ApplyFrame(recognized_students, hand, face) ==
    LET S == process_frame(Session, recognized_students, hand, face, now)
        face_data == detect_face_movement(face)
    IN  /\ active_students' = S.active_students
        /\ student_keys' = S.student_keys
        /\ attendance_marked' = S.attendance_marked
        /\ hand_detector' = S.hand_detector
        /\ face_movement_detector' = S.face_movement_detector
        /\ attendance_log' = S.attendance_log
        /\ frames_done' = frames_done + 1
        /\ call' = [op |-> "frame", recognized_students |-> recognized_students,
                    hand |-> hand, face |-> face]
        /\ hand_obs' = Observe(hand_obs, hand = "raised", now,
                               S.hand_detector.hand_raise_count
                                   # hand_detector.hand_raise_count)
        /\ away_obs' = IF face.head_pose # None
                       THEN Observe(away_obs, face_data.looking_away, now,
                                    S.face_movement_detector.looking_away_count
                                        # face_movement_detector.looking_away_count)
                       ELSE away_obs
        /\ UNCHANGED <<shell, regVars, thrVars, now, shellVars, behavior_logs, session_no, reports>>

\* A frame of the shell and pipeline models; a face is only recognised as
\* a student that is registered (in these models every students row has
\* its face encoding)
Frame(recognized_students, hand, face) ==
    /\ frames_done < MaxFrames
    /\ Range(recognized_students) \subseteq students \cup {NoId}
    /\ ApplyFrame(recognized_students, hand, face)

\* Faulty variant: the test `if not self.session_start_time: return` is missing
SaveSessionReport_NoGuard ==
    /\ behavior_logs' = behavior_logs \o
           ReportRows(active_students, student_keys, DateOf(now), session_no,
                      Len(reports) + 1)
    /\ reports' = Append(reports, session_no)

\* _save_session_report / save_session_report, called at time `now`
SaveSessionReport ==
    IF session_start_time = None
    THEN UNCHANGED <<behavior_logs, reports>>
    ELSE /\ behavior_logs' = behavior_logs \o
                ReportRows(active_students, student_keys, DateOf(now), session_no,
                           Len(reports) + 1)
         /\ reports' = Append(reports, session_no)

----------------------------------------------------------------------------
\* Command line: BehaviorTrackingSystem.start_monitoring_session

CliStart ==
    /\ shell = "cli" /\ session_no = 0
    /\ session_start_time' = Some(now)
    /\ camera' = "open"
    /\ is_monitoring' = TRUE
    /\ paused' = FALSE
    /\ session_no' = 1
    /\ call' = [op |-> "start"]
    /\ UNCHANGED <<shell, regVars, thrVars, now, students, loop_alive, recVars, detVars, dbVars,
                   reports, frames_done, obsVars>>

\* one pass of the loop body with a frame read
CliFrame(recognized_students, hand, face) ==
    /\ shell = "cli" /\ is_monitoring /\ ~paused
    /\ Frame(recognized_students, hand, face)

\* `finally`: release the camera, then save the report
CliFinally(op) ==
    /\ shell = "cli" /\ is_monitoring
    /\ Len(reports) < MaxReports
    /\ camera' = "released"
    /\ is_monitoring' = FALSE
    /\ SaveSessionReport
    /\ call' = [op |-> op]
    /\ UNCHANGED <<shell, regVars, thrVars, now, students, paused, loop_alive, session_start_time,
                   recVars, detVars, attendance_log, session_no, frames_done, obsVars>>

\* cap.read() fails: break
CliReadFail == ~paused /\ CliFinally("read_fail")

\* key 'q': break
CliQuit == CliFinally("quit")

\* key ' '
CliPause ==
    /\ shell = "cli" /\ is_monitoring
    /\ paused' = ~paused
    /\ call' = [op |-> "pause"]
    /\ UNCHANGED <<shell, regVars, thrVars, now, students, is_monitoring, loop_alive, camera,
                   session_start_time, recVars, detVars, dbVars, session_no,
                   reports, frames_done, obsVars>>

\* key 'r': _reset_statistics
CliReset ==
    /\ shell = "cli" /\ is_monitoring
    /\ hand_detector' = hand_reset_count(hand_detector)
    /\ face_movement_detector' = face_reset_count(face_movement_detector)
    /\ active_students' =
           [id \in DOMAIN active_students |->
               [active_students[id] EXCEPT !.hand_raises = 0,
                                           !.looking_away_count = 0,
                                           !.attention_scores = <<>>]]
    /\ call' = [op |-> "reset"]
    /\ UNCHANGED <<shell, regVars, thrVars, now, shellVars, student_keys, attendance_marked, dbVars,
                   session_no, reports, frames_done, obsVars>>

\* key 's': _save_session_report
CliSave ==
    /\ shell = "cli" /\ is_monitoring
    /\ Len(reports) < MaxReports
    /\ SaveSessionReport
    /\ call' = [op |-> "save"]
    /\ UNCHANGED <<shell, regVars, thrVars, now, shellVars, recVars, detVars, attendance_log,
                   session_no, frames_done, obsVars>>

----------------------------------------------------------------------------
\* Desktop: BehaviorTrackingGUI.  The start button is enabled exactly when
\* is_monitoring is false and the stop button exactly when it is true (both
\* are switched together with the flag).  The monitoring thread is taken to
\* leave its loop as soon as stop_monitoring clears the flag.

GuiStartSession(camera_ok) ==
    /\ shell = "gui" /\ ~is_monitoring
    /\ session_no < MaxSessions
    /\ IF students = {}
       THEN /\ call' = [op |-> "start", accepted |-> FALSE]
            /\ UNCHANGED <<shellVars, recVars, session_no>>
       ELSE IF ~camera_ok
       THEN /\ camera' = "unavailable"
            /\ call' = [op |-> "start", accepted |-> FALSE]
            /\ UNCHANGED <<students, is_monitoring, paused, loop_alive,
                           session_start_time, recVars, session_no>>
       ELSE /\ camera' = "open"
            /\ is_monitoring' = TRUE
            /\ session_start_time' = Some(now)
            /\ active_students' = <<>>
            /\ student_keys' = <<>>
            /\ attendance_marked' = {}
            /\ loop_alive' = TRUE
            /\ session_no' = session_no + 1
            /\ call' = [op |-> "start", accepted |-> TRUE]
            /\ UNCHANGED <<students, paused>>
    /\ UNCHANGED <<shell, regVars, now, detVars, dbVars, reports, frames_done, obsVars>>

\* start_monitoring in the model without threads
GuiStart(camera_ok) ==
    /\ GuiStartSession(camera_ok)
    /\ UNCHANGED thrVars

\* monitoring_loop: one pass with a frame read
GuiFrame(recognized_students, hand, face) ==
    /\ shell = "gui" /\ is_monitoring /\ loop_alive
    /\ Frame(recognized_students, hand, face)

\* monitoring_loop: cap.read() fails, the thread leaves the loop
GuiReadFail ==
    /\ shell = "gui" /\ is_monitoring /\ loop_alive
    /\ loop_alive' = FALSE
    /\ call' = [op |-> "read_fail"]
    /\ UNCHANGED <<shell, regVars, thrVars, now, students, is_monitoring, paused, camera,
                   session_start_time, recVars, detVars, dbVars, session_no,
                   reports, frames_done, obsVars>>

GuiStop ==
    /\ shell = "gui" /\ is_monitoring
    /\ Len(reports) < MaxReports
    /\ is_monitoring' = FALSE
    /\ loop_alive' = FALSE
    /\ camera' = "released"
    /\ SaveSessionReport
    /\ call' = [op |-> "stop", accepted |-> TRUE]
    /\ UNCHANGED <<shell, regVars, thrVars, now, students, paused, session_start_time, recVars,
                   detVars, attendance_log, session_no, frames_done, obsVars>>

----------------------------------------------------------------------------
\* Web: web_app.py

\* Faulty variant: a start is accepted while a session is running
WebStart_NoActiveTest(camera_ok) ==
    /\ shell = "web"
    /\ session_no < MaxSessions
    /\ IF students = {} \/ ~camera_ok
       THEN /\ call' = [op |-> "start", accepted |-> FALSE]
            /\ camera' = IF students # {} THEN "unavailable" ELSE camera
            /\ UNCHANGED <<students, is_monitoring, paused, loop_alive,
                           session_start_time, recVars, detVars, session_no>>
       ELSE /\ camera' = "open"
            /\ is_monitoring' = TRUE
            /\ session_start_time' = Some(now)
            /\ active_students' = <<>>
            /\ student_keys' = <<>>
            /\ attendance_marked' = {}
            /\ hand_detector' = hand_reset_count(hand_detector)
            /\ face_movement_detector' = face_reset_count(face_movement_detector)
            /\ session_no' = session_no + 1
            /\ call' = [op |-> "start", accepted |-> TRUE]
            /\ UNCHANGED <<students, paused, loop_alive>>
    /\ UNCHANGED <<shell, regVars, thrVars, now, dbVars, reports, frames_done, obsVars>>

\* POST /api/start_monitoring
WebStart(camera_ok) ==
    /\ shell = "web"
    /\ session_no < MaxSessions
    /\ IF students = {} \/ is_monitoring \/ ~camera_ok
       THEN /\ call' = [op |-> "start", accepted |-> FALSE]
            /\ camera' = IF students # {} /\ ~is_monitoring THEN "unavailable" ELSE camera
            /\ UNCHANGED <<students, is_monitoring, paused, loop_alive,
                           session_start_time, recVars, detVars, session_no>>
       ELSE /\ camera' = "open"
            /\ is_monitoring' = TRUE
            /\ session_start_time' = Some(now)
            /\ active_students' = <<>>
            /\ student_keys' = <<>>
            /\ attendance_marked' = {}
            /\ hand_detector' = hand_reset_count(hand_detector)
            /\ face_movement_detector' = face_reset_count(face_movement_detector)
            /\ session_no' = session_no + 1
            /\ call' = [op |-> "start", accepted |-> TRUE]
            /\ UNCHANGED <<students, paused, loop_alive>>
    /\ UNCHANGED <<shell, regVars, thrVars, now, dbVars, reports, frames_done, obsVars>>

\* generate_frames: one pass with a frame read
WebFrame(recognized_students, hand, face) ==
    /\ shell = "web" /\ is_monitoring /\ camera = "open"
    /\ Frame(recognized_students, hand, face)

\* POST /api/stop_monitoring
WebStop ==
    /\ shell = "web"
    /\ IF is_monitoring
       THEN /\ Len(reports) < MaxReports
            /\ is_monitoring' = FALSE
            /\ camera' = "none"
            /\ SaveSessionReport
            /\ call' = [op |-> "stop", accepted |-> TRUE]
       ELSE /\ call' = [op |-> "stop", accepted |-> FALSE]
            /\ UNCHANGED <<is_monitoring, camera, behavior_logs, reports>>
    /\ UNCHANGED <<shell, regVars, thrVars, now, students, paused, loop_alive, session_start_time,
                   recVars, detVars, attendance_log, session_no, frames_done, obsVars>>

----------------------------------------------------------------------------
Next ==
    \/ Tick(MaxClock)
    \/ CliStart
    \/ \E f \in ShellFrames : CliFrame(f.recognized_students, f.hand, f.face)
    \/ CliReadFail
    \/ CliQuit
    \/ CliPause
    \/ CliReset
    \/ CliSave
    \/ \E ok \in BOOLEAN : GuiStart(ok)
    \/ \E f \in ShellFrames : GuiFrame(f.recognized_students, f.hand, f.face)
    \/ GuiReadFail
    \/ GuiStop
    \/ \E ok \in BOOLEAN : WebStart(ok)
    \/ \E f \in ShellFrames : WebFrame(f.recognized_students, f.hand, f.face)
    \/ WebStop

Spec == Init /\ [][Next]_vars

----------------------------------------------------------------------------
\* One detector alone, driven by arbitrary update calls at non-decreasing
\* clock readings: the harness calls update_hand_raise_count
\* ("hand_unit") or update_looking_away_count ("face_unit").
InitDet ==
    /\ shell \in Units
    /\ now = 0
    /\ students = {}
    /\ is_monitoring = FALSE
    /\ paused = FALSE
    /\ loop_alive = FALSE
    /\ camera = "none"
    /\ session_start_time = None
    /\ active_students = <<>>
    /\ student_keys = <<>>
    /\ attendance_marked = {}
    /\ hand_detector = HandGestureDetector
    /\ face_movement_detector = FaceMovementDetector
    /\ attendance_log = <<>>
    /\ behavior_logs = <<>>
    /\ session_no = 0
    /\ reports = <<>>
    /\ frames_done = 0
    /\ call = [op |-> "init"]
    /\ hand_obs = NoRun
    /\ away_obs = NoRun
    /\ NoThreads
    /\ Enrolled

HandUpdate(signal) ==
    LET r == update_hand_raise_count(hand_detector, signal, now)
    IN  /\ shell = "hand_unit"
        /\ hand_detector' = r.det
        /\ hand_obs' = Observe(hand_obs, signal, now, r.ret)
        /\ call' = [op |-> "update", signal |-> signal, ret |-> r.ret, at |-> now,
                    episode_start |-> hand_detector.hand_raise_start_time]
        /\ UNCHANGED <<shell, regVars, thrVars, now, shellVars, recVars, face_movement_detector, dbVars,
                       session_no, reports, frames_done, away_obs>>

AwayUpdate(signal) ==
    LET r == update_looking_away_count(face_movement_detector, signal, now)
    IN  /\ shell = "face_unit"
        /\ face_movement_detector' = r.det
        /\ away_obs' = Observe(away_obs, signal, now, r.ret)
        /\ call' = [op |-> "update", signal |-> signal, ret |-> r.ret, at |-> now,
                    episode_start |-> face_movement_detector.looking_away_start_time]
        /\ UNCHANGED <<shell, regVars, thrVars, now, shellVars, recVars, hand_detector, dbVars,
                       session_no, reports, frames_done, hand_obs>>

NextDet ==
    \/ Tick(MaxTime)
    \/ \E signal \in BOOLEAN : HandUpdate(signal)
    \/ \E signal \in BOOLEAN : AwayUpdate(signal)

SpecDet == InitDet /\ [][NextDet]_vars

----------------------------------------------------------------------------
\* One detector alone, driven by update calls and by reset_count; the
\* observer of the raw signal starts afresh with the detector
HandReset ==
    /\ shell = "hand_unit"
    /\ hand_detector' = hand_reset_count(hand_detector)
    /\ hand_obs' = NoRun
    /\ call' = [op |-> "reset", episode_start |-> hand_detector.hand_raise_start_time,
                last_confirmed |-> hand_detector.last_hand_raise_time]
    /\ UNCHANGED <<shell, regVars, thrVars, now, shellVars, recVars, face_movement_detector, dbVars,
                   session_no, reports, frames_done, away_obs>>

AwayReset ==
    /\ shell = "face_unit"
    /\ face_movement_detector' = face_reset_count(face_movement_detector)
    /\ away_obs' = NoRun
    /\ call' = [op |-> "reset",
                episode_start |-> face_movement_detector.looking_away_start_time,
                last_confirmed |-> face_movement_detector.last_looking_away_time]
    /\ UNCHANGED <<shell, regVars, thrVars, now, shellVars, recVars, hand_detector, dbVars,
                   session_no, reports, frames_done, hand_obs>>

NextDetReset ==
    \/ NextDet
    \/ HandReset
    \/ AwayReset

SpecDetReset == InitDet /\ [][NextDetReset]_vars

----------------------------------------------------------------------------
\* The attention score alone: detect_face_movement applied to a face with
\* any head pose of whole degrees up to MaxAngle either way.
MaxAngle == 60

Angles == (0 - MaxAngle)..MaxAngle

FaceWithPose(yaw, pitch) ==
    [face |-> TRUE, head_pose |-> Some([yaw |-> yaw, pitch |-> pitch])]

InitScore ==
    /\ shell = "score_unit"
    /\ now = 0
    /\ students = {}
    /\ is_monitoring = FALSE
    /\ paused = FALSE
    /\ loop_alive = FALSE
    /\ camera = "none"
    /\ session_start_time = None
    /\ active_students = <<>>
    /\ student_keys = <<>>
    /\ attendance_marked = {}
    /\ hand_detector = HandGestureDetector
    /\ face_movement_detector = FaceMovementDetector
    /\ attendance_log = <<>>
    /\ behavior_logs = <<>>
    /\ session_no = 0
    /\ reports = <<>>
    /\ frames_done = 0
    /\ call = [op |-> "init"]
    /\ hand_obs = NoRun
    /\ away_obs = NoRun
    /\ NoThreads
    /\ Enrolled

Score(yaw, pitch) ==
    /\ shell = "score_unit" /\ call.op = "init"
    /\ call' = [op |-> "score", yaw |-> yaw, pitch |-> pitch,
                face_data |-> detect_face_movement(FaceWithPose(yaw, pitch))]
    /\ UNCHANGED <<shell, regVars, thrVars, now, shellVars, recVars, detVars, dbVars, session_no,
                   reports, frames_done, obsVars>>

NextScore == \E yaw, pitch \in Angles : Score(yaw, pitch)

SpecScore == InitScore /\ [][NextScore]_vars

----------------------------------------------------------------------------
\* The per-frame pipeline alone: a session of any shell, just started at
\* time 0, fed arbitrary frames while the clock runs up to the looking-away
\* threshold.
MaxPipelineClock == looking_away_threshold

InitFrame ==
    /\ shell \in Shells
    /\ now = 0
    /\ students = Students
    /\ is_monitoring = TRUE
    /\ paused = FALSE
    /\ loop_alive = (shell = "gui")
    /\ camera = "open"
    /\ session_start_time = Some(0)
    /\ active_students = <<>>
    /\ student_keys = <<>>
    /\ attendance_marked = {}
    /\ hand_detector = HandGestureDetector
    /\ face_movement_detector = FaceMovementDetector
    /\ attendance_log = <<>>
    /\ behavior_logs = <<>>
    /\ session_no = 1
    /\ reports = <<>>
    /\ frames_done = 0
    /\ call = IF shell = "cli" THEN [op |-> "start"]
                               ELSE [op |-> "start", accepted |-> TRUE]
    /\ hand_obs = NoRun
    /\ away_obs = NoRun
    /\ NoThreads
    /\ Enrolled

NextFrame ==
    \/ Tick(MaxPipelineClock)
    \/ \E f \in PipelineFrames : CliFrame(f.recognized_students, f.hand, f.face)
    \/ \E f \in PipelineFrames : GuiFrame(f.recognized_students, f.hand, f.face)
    \/ \E f \in PipelineFrames : WebFrame(f.recognized_students, f.hand, f.face)

SpecFrame == InitFrame /\ [][NextFrame]_vars

----------------------------------------------------------------------------
\* One command-line session in detail: frames that see, miss and see again
\* the students, with statistics resets ('r') and reports ('s') in between.
MaxSightings == 3

SessionFrames ==
    {f \in PipelineFrames :
        f.hand # "lowered" /\ f.face \in {NoFace, [face |-> TRUE, head_pose |-> Some([yaw |-> 0 - 5, pitch |-> 5])]}}

InitSession == InitFrame /\ shell = "cli"

SessionFrame(recognized_students, hand, face) ==
    /\ shell = "cli" /\ is_monitoring /\ ~paused
    /\ frames_done < MaxSightings
    /\ ApplyFrame(recognized_students, hand, face)

NextSession ==
    \/ Tick(MaxClock)
    \/ \E f \in SessionFrames : SessionFrame(f.recognized_students, f.hand, f.face)
    \/ CliReset
    \/ CliSave

SpecSession == InitSession /\ [][NextSession]_vars

----------------------------------------------------------------------------
\* Report generation around short sessions: the three shells from
\* construction, sessions that end with or without a frame, and the report
\* method called on its own.

\* The one frame of this model: student s1, no hand, no face
ReportFrames ==
    {f \in ShellFrames : /\ f.recognized_students = <<"s1">>
                         /\ f.hand = "none"
                         /\ f.face = NoFace}

\* _save_session_report / save_session_report called on its own, outside
\* the frame loop
DirectReport ==
    /\ shell \in Shells /\ ~is_monitoring
    /\ Len(reports) < MaxReports
    /\ SaveSessionReport
    /\ call' = [op |-> "report"]
    /\ UNCHANGED <<shell, regVars, thrVars, now, shellVars, recVars, detVars, attendance_log,
                   session_no, frames_done, obsVars>>

NextReport ==
    \/ Tick(MaxClock)
    \/ CliStart
    \/ \E f \in ReportFrames : CliFrame(f.recognized_students, f.hand, f.face)
    \/ CliReadFail
    \/ CliQuit
    \/ CliSave
    \/ \E ok \in BOOLEAN : GuiStart(ok)
    \/ \E f \in ReportFrames : GuiFrame(f.recognized_students, f.hand, f.face)
    \/ GuiReadFail
    \/ GuiStop
    \/ \E ok \in BOOLEAN : WebStart(ok)
    \/ \E f \in ReportFrames : WebFrame(f.recognized_students, f.hand, f.face)
    \/ WebStop
    \/ DirectReport

SpecReport == Init /\ [][NextReport]_vars

----------------------------------------------------------------------------
\* The hand-raise path of the pipeline over a longer stretch of frames:
\* student s1 in view, no face, the hand raised, lowered or out of view.

\* At most this many frames are processed
MaxHandFrames == 5

\* Long enough for a confirmation, a gap, and a second run that outlasts
\* the cooldown
MaxHandClock == hand_cooldown_period + hand_raise_duration_threshold

InitHand == InitFrame /\ shell \in {"cli", "gui"}

HandFrame(hand) ==
    /\ shell \in {"cli", "gui"} /\ is_monitoring /\ ~paused
    /\ frames_done < MaxHandFrames
    /\ ApplyFrame(<<"s1">>, hand, NoFace)

NextHand ==
    \/ Tick(MaxHandClock)
    \/ \E hand \in HandInputs : HandFrame(hand)

SpecHand == InitHand /\ [][NextHand]_vars

----------------------------------------------------------------------------
\* Threads of the desktop and the web shell.  The desktop starts one
\* daemon thread per start_monitoring and never joins it; the web server
\* runs every request in a thread of its own, so each GET /video_feed has
\* its own generate_frames loop.  All of them work on the same session
\* state without a lock.  A step of a thread is the part of the frame
\* between two points where the interpreter can switch threads; the clock
\* stands still in this model.

\* At most this many frames are read from the camera
MaxConcFrames == 2

\* The frames the threads read: two students with a raised hand and a
\* turned head, or one student alone
ConcFrames ==
    {[recognized_students |-> <<"s1", "s2">>, hand |-> "raised",
      face |-> [face |-> TRUE, head_pose |-> Some([yaw |-> 30, pitch |-> 0])]],
     [recognized_students |-> <<"s2">>, hand |-> "none", face |-> NoFace]}

\* f"{x:.1f}" of a mean kept in half points: tenths of a point, ties to even
Tenths(mean) ==
    LET q == (5 * mean[1]) \div mean[2]
        r == (5 * mean[1]) % mean[2]
    IN  IF 2 * r > mean[2] THEN q + 1
        ELSE IF 2 * r = mean[2] THEN q + (q % 2)
        ELSE q

AddFrac(a, b) == Frac(a[1] * b[2] + b[1] * a[2], a[2] * b[2])

\* get_stats: the entry of students_list for one record
StatsEntry(student_id, data) ==
    [id |-> student_id,
     attention |-> IF data.attention_scores # <<>>
                   THEN Some(Tenths(np_mean(data.attention_scores)))
                   ELSE None,
     hand_raises |-> data.hand_raises]

\* get_stats: total_attention and count after the records keys[1..n]
RECURSIVE TotalAttention(_, _, _)
TotalAttention(records, keys, n) ==
    IF n = 0
    THEN [total |-> Frac(0, 1), count |-> 0]
    ELSE LET rest == TotalAttention(records, keys, n - 1)
             scores == records[keys[n]].attention_scores
         IN  IF scores # <<>>
             THEN [total |-> AddFrac(rest.total, np_mean(scores)),
                   count |-> rest.count + 1]
             ELSE rest

\* get_stats: avg_attention as it is formatted
AvgAttention(acc) ==
    IF acc.count > 0 THEN Tenths(Frac(acc.total[1], acc.total[2] * acc.count)) ELSE 0

\* get_stats: the duration in whole seconds
Duration == IF session_start_time = None THEN 0
            ELSE whole_seconds(now - session_start_time[1])

\* get_stats evaluated on one state of the session
StatsOf(records, keys, hand, face) ==
    [duration |-> Duration,
     active_students |-> Len(keys),
     hand_raises |-> hand.hand_raise_count,
     looking_away |-> face.looking_away_count,
     avg_attention |-> AvgAttention(TotalAttention(records, keys, Len(keys))),
     students_list |-> [i \in 1..Len(keys) |-> StatsEntry(keys[i], records[keys[i]])]]

\* The thread is between the first and the last write of process_frame
InFrame(thread) == thread.pc \in {"update", "hand", "face"}

\* A thread slot that is free
FreeSlot(t) ==
    /\ threads[t].pc = "none"
    /\ \A u \in ThreadIds : u < t => threads[u].pc # "none"

\* The session state a thread step leaves behind
StoreSession(S) ==
    /\ active_students' = S.active_students
    /\ student_keys' = S.student_keys
    /\ attendance_marked' = S.attendance_marked
    /\ hand_detector' = S.hand_detector
    /\ face_movement_detector' = S.face_movement_detector
    /\ attendance_log' = S.attendance_log

InitConc ==
    /\ shell \in {"gui", "web"}
    /\ now = 0
    /\ students = Students
    /\ is_monitoring = TRUE
    /\ paused = FALSE
    /\ loop_alive = (shell = "gui")
    /\ camera = "open"
    /\ session_start_time = Some(0)
    /\ active_students = <<>>
    /\ student_keys = <<>>
    /\ attendance_marked = {}
    /\ hand_detector = HandGestureDetector
    /\ face_movement_detector = FaceMovementDetector
    /\ attendance_log = <<>>
    /\ behavior_logs = <<>>
    /\ session_no = 1
    /\ reports = <<>>
    /\ frames_done = 0
    /\ call = [op |-> "start", accepted |-> TRUE]
    /\ hand_obs = NoRun
    /\ away_obs = NoRun
    /\ threads = [t \in ThreadIds |->
                     IF shell = "gui" /\ t = 1 THEN [pc |-> "loop"] ELSE NoThread]
    /\ reader = Idle
    /\ boundaries = {StatsOf(<<>>, <<>>, HandGestureDetector, FaceMovementDetector)}
    /\ Enrolled

\* GET /video_feed: the response runs a generate_frames loop of its own
VideoFeed(t) ==
    /\ shell = "web"
    /\ FreeSlot(t)
    /\ threads' = [threads EXCEPT ![t] = [pc |-> "loop"]]
    /\ UNCHANGED <<shell, regVars, now, shellVars, recVars, detVars, dbVars, ghostVars,
                   obsVars, reader, boundaries>>

\* monitoring_loop / generate_frames: the loop test and the camera read
ThreadLoop(t, frame) ==
    /\ threads[t].pc = "loop"
    /\ IF is_monitoring /\ camera = "open"
       THEN /\ frames_done < MaxConcFrames
            /\ frames_done' = frames_done + 1
            /\ threads' = [threads EXCEPT ![t] = [pc |-> "frame", frame |-> frame]]
       ELSE /\ frame = CHOOSE f \in ConcFrames : TRUE
            /\ threads' = [threads EXCEPT ![t] = NoThread]
            /\ UNCHANGED frames_done
    /\ UNCHANGED <<shell, regVars, now, shellVars, recVars, detVars, dbVars, session_no,
                   reports, call, obsVars, reader, boundaries>>

\* process_frame: current_time = datetime.now() and the face recognition
ThreadBegin(t) ==
    /\ threads[t].pc = "frame"
    /\ threads' = [threads EXCEPT ![t] =
                      [pc |-> IF threads[t].frame.recognized_students = <<>>
                              THEN "hand" ELSE "update",
                       frame |-> threads[t].frame, current_time |-> now, i |-> 1]]
    /\ UNCHANGED <<shell, regVars, now, shellVars, recVars, detVars, dbVars, ghostVars,
                   obsVars, reader, boundaries>>

\* process_frame: one pass of `for student in recognized_students`
ThreadStudent(t) ==
    /\ threads[t].pc = "update"
    /\ LET self == threads[t]
           student_id == self.frame.recognized_students[self.i]
           last == self.i = Len(self.frame.recognized_students)
       IN  /\ StoreSession(IF student_id # NoId
                           THEN SeeStudent(Session, student_id, self.current_time)
                           ELSE Session)
           /\ threads' = [threads EXCEPT ![t] =
                             IF last THEN [self EXCEPT !.pc = "hand"]
                                     ELSE [self EXCEPT !.i = @ + 1]]
    /\ UNCHANGED <<shell, regVars, now, shellVars, behavior_logs, ghostVars, obsVars,
                   reader, boundaries>>

\* process_frame: hand detection and its counters
ThreadHand(t) ==
    /\ threads[t].pc = "hand"
    /\ StoreSession(HandStep(Session, detect_hands(threads[t].frame.hand),
                             threads[t].current_time))
    /\ threads' = [threads EXCEPT ![t].pc = "face"]
    /\ UNCHANGED <<shell, regVars, now, shellVars, behavior_logs, ghostVars, obsVars,
                   reader, boundaries>>

\* process_frame: face movement, attention scores; the frame is done
ThreadFace(t) ==
    /\ threads[t].pc = "face"
    /\ LET S == FaceStep(Session, detect_face_movement(threads[t].frame.face),
                         threads[t].current_time)
       IN  /\ StoreSession(S)
           /\ boundaries' = boundaries \cup
                  {StatsOf(S.active_students, S.student_keys, S.hand_detector,
                           S.face_movement_detector)}
    /\ threads' = [threads EXCEPT ![t] = [pc |-> "loop"]]
    /\ UNCHANGED <<shell, regVars, now, shellVars, behavior_logs, ghostVars, obsVars, reader>>

\* A request handler or button callback can begin: none is in progress
\* (requests are taken one at a time in this model)
HandlerFree == reader.op \in {"idle", "failed", "stats_done"}

\* Desktop: start_monitoring starts a new monitoring thread; a thread of
\* an earlier session that has not yet left its loop keeps running
ConcGuiStart(camera_ok) ==
    /\ HandlerFree
    /\ GuiStartSession(camera_ok)
    /\ IF is_monitoring'
       THEN \E t \in ThreadIds :
               /\ FreeSlot(t)
               /\ threads' = [threads EXCEPT ![t] = [pc |-> "loop"]]
       ELSE UNCHANGED threads
    /\ reader' = Idle
    /\ boundaries' = boundaries \cup
           {StatsOf(active_students', student_keys', hand_detector,
                    face_movement_detector)}

\* Web: POST /api/start_monitoring
ConcWebStart(camera_ok) ==
    /\ HandlerFree
    /\ WebStart(camera_ok)

\* stop_monitoring up to the call of save_session_report, which creates
\* the iterator of `for student_id, data in active_students.items()`
ConcStop ==
    /\ HandlerFree
    /\ shell \in {"gui", "web"}
    /\ shell = "gui" => is_monitoring
    /\ IF is_monitoring
       THEN /\ Len(reports) < MaxReports
            /\ is_monitoring' = FALSE
            /\ camera' = IF shell = "gui" THEN "released" ELSE "none"
            /\ call' = [op |-> "stop", accepted |-> TRUE]
            /\ IF session_start_time = None
               THEN /\ reader' = Idle
                    /\ UNCHANGED reports
               ELSE /\ reader' = [op |-> "report", pos |-> 0,
                                  size |-> Len(student_keys),
                                  session_date |-> DateOf(now),
                                  report |-> Len(reports) + 1]
                    /\ reports' = Append(reports, session_no)
       ELSE /\ call' = [op |-> "stop", accepted |-> FALSE]
            /\ reader' = Idle
            /\ UNCHANGED <<is_monitoring, camera, reports>>
    /\ UNCHANGED <<shell, regVars, now, students, paused, loop_alive, session_start_time,
                   recVars, detVars, dbVars, session_no, frames_done, obsVars,
                   threads, boundaries>>

\* save_session_report: one next() of the dict iterator and the loop body.
\* The iterator raises RuntimeError when the dict has changed size since
\* it was created; the handler then ends without the remaining rows.
ReportStep ==
    /\ reader.op = "report"
    /\ IF Len(student_keys) # reader.size
       THEN /\ reader' = [op |-> "failed", in |-> "report"]
            /\ UNCHANGED behavior_logs
       ELSE IF reader.pos = reader.size
       THEN /\ reader' = Idle
            /\ UNCHANGED behavior_logs
       ELSE LET student_id == student_keys[reader.pos + 1]
            IN  /\ behavior_logs' = Append(behavior_logs,
                       BehaviorRow(student_id, active_students[student_id],
                                   reader.session_date, session_no, reader.report))
                /\ reader' = [reader EXCEPT !.pos = @ + 1]
    /\ UNCHANGED <<shell, regVars, now, shellVars, recVars, detVars, attendance_log,
                   ghostVars, obsVars, threads, boundaries>>

\* GET /api/stats: the duration and the test `if active_students`
StatsBegin ==
    /\ HandlerFree
    /\ shell = "web"
    /\ reader' = IF student_keys # <<>>
                 THEN [op |-> "stats", phase |-> "values", duration |-> Duration,
                       pos |-> 0, size |-> Len(student_keys),
                       acc |-> [total |-> Frac(0, 1), count |-> 0]]
                 ELSE [op |-> "stats", phase |-> "build", duration |-> Duration,
                       avg_attention |-> 0]
    /\ UNCHANGED <<shell, regVars, now, shellVars, recVars, detVars, dbVars, ghostVars,
                   obsVars, threads, boundaries>>

\* get_stats: one next() of `for data in active_students.values()`
StatsValues ==
    /\ reader.op = "stats" /\ reader.phase = "values"
    /\ reader' =
           IF Len(student_keys) # reader.size
           THEN [op |-> "failed", in |-> "stats"]
           ELSE IF reader.pos = reader.size
           THEN [op |-> "stats", phase |-> "build", duration |-> reader.duration,
                 avg_attention |-> AvgAttention(reader.acc)]
           ELSE LET scores ==
                        active_students[student_keys[reader.pos + 1]].attention_scores
                IN  [reader EXCEPT
                       !.pos = @ + 1,
                       !.acc = IF scores # <<>>
                               THEN [total |-> AddFrac(@.total, np_mean(scores)),
                                     count |-> @.count + 1]
                               ELSE @]
    /\ UNCHANGED <<shell, regVars, now, shellVars, recVars, detVars, dbVars, ghostVars,
                   obsVars, threads, boundaries>>

\* get_stats: len(active_students), the two detector counters, and the
\* iterator of the students_list comprehension
StatsBuild ==
    /\ reader.op = "stats" /\ reader.phase = "build"
    /\ reader' = [op |-> "stats", phase |-> "items",
                  pos |-> 0, size |-> Len(student_keys),
                  result |-> [duration |-> reader.duration,
                              active_students |-> Len(student_keys),
                              hand_raises |-> hand_detector.hand_raise_count,
                              looking_away |-> face_movement_detector.looking_away_count,
                              avg_attention |-> reader.avg_attention,
                              students_list |-> <<>>]]
    /\ UNCHANGED <<shell, regVars, now, shellVars, recVars, detVars, dbVars, ghostVars,
                   obsVars, threads, boundaries>>

\* get_stats: one next() of `for sid, data in active_students.items()`
StatsItems ==
    /\ reader.op = "stats" /\ reader.phase = "items"
    /\ reader' =
           IF Len(student_keys) # reader.size
           THEN [op |-> "failed", in |-> "stats"]
           ELSE IF reader.pos = reader.size
           THEN [op |-> "stats_done", result |-> reader.result]
           ELSE LET student_id == student_keys[reader.pos + 1]
                IN  [reader EXCEPT
                       !.pos = @ + 1,
                       !.result.students_list =
                           Append(@, StatsEntry(student_id, active_students[student_id]))]
    /\ UNCHANGED <<shell, regVars, now, shellVars, recVars, detVars, dbVars, ghostVars,
                   obsVars, threads, boundaries>>

NextConc ==
    \/ \E t \in ThreadIds : VideoFeed(t)
    \/ \E t \in ThreadIds, frame \in ConcFrames : ThreadLoop(t, frame)
    \/ \E t \in ThreadIds : ThreadBegin(t)
    \/ \E t \in ThreadIds : ThreadStudent(t)
    \/ \E t \in ThreadIds : ThreadHand(t)
    \/ \E t \in ThreadIds : ThreadFace(t)
    \/ ConcGuiStart(TRUE)
    \/ ConcWebStart(TRUE)
    \/ ConcStop
    \/ ReportStep
    \/ StatsBegin
    \/ StatsValues
    \/ StatsBuild
    \/ StatsItems

SpecConc == InitConc /\ [][NextConc]_vars

----------------------------------------------------------------------------
\* Web: frames that overlap a restart of the session.  The hand step of
\* process_frame is taken in its two statements, the call of
\* update_hand_raise_count and the loop that credits the records, and the
\* clock runs, so that a raise can be confirmed.
MaxOverlapFrames == 3

\* The one frame of this model: student s1 with a raised hand, no face
OverlapFrame ==
    [recognized_students |-> <<"s1">>, hand |-> "raised", face |-> NoFace]

InitOverlap == Init /\ shell = "web" /\ students = Students

\* generate_frames: the loop test and the camera read
OverlapLoop(t) ==
    /\ threads[t].pc = "loop"
    /\ IF is_monitoring /\ camera = "open"
       THEN /\ frames_done < MaxOverlapFrames
            /\ frames_done' = frames_done + 1
            /\ threads' = [threads EXCEPT ![t] = [pc |-> "frame", frame |-> OverlapFrame]]
       ELSE /\ threads' = [threads EXCEPT ![t] = NoThread]
            /\ UNCHANGED frames_done
    /\ UNCHANGED <<shell, regVars, now, shellVars, recVars, detVars, dbVars, session_no,
                   reports, call, obsVars, reader, boundaries>>

\* process_frame: detect_hands and update_hand_raise_count, which reads
\* the clock itself
ThreadHandUpdate(t) ==
    /\ threads[t].pc = "hand"
    /\ LET hand_data == detect_hands(threads[t].frame.hand)
           r == update_hand_raise_count(hand_detector, hand_data.hand_raised, now)
       IN  IF hand_data.hands_detected
           THEN /\ hand_detector' = r.det
                /\ threads' = [threads EXCEPT ![t].pc =
                                  IF hand_data.hand_raised /\ r.ret
                                  THEN "attribute" ELSE "face"]
           ELSE /\ threads' = [threads EXCEPT ![t].pc = "face"]
                /\ UNCHANGED hand_detector
    /\ UNCHANGED <<shell, regVars, now, shellVars, recVars, face_movement_detector, dbVars,
                   ghostVars, obsVars, reader, boundaries>>

\* process_frame: `if new_raise: for student_id in
\* monitoring_state['active_students'].keys(): hand_raises += 1`
ThreadHandAttribute(t) ==
    /\ threads[t].pc = "attribute"
    /\ active_students' = AttributeHandRaise(active_students, student_keys)
    /\ threads' = [threads EXCEPT ![t].pc = "face"]
    /\ UNCHANGED <<shell, regVars, now, shellVars, student_keys, attendance_marked, detVars,
                   dbVars, ghostVars, obsVars, reader, boundaries>>

NextOverlap ==
    \/ Tick(MaxClock)
    \/ \E t \in ThreadIds : VideoFeed(t)
    \/ \E t \in ThreadIds : OverlapLoop(t)
    \/ \E t \in ThreadIds : ThreadBegin(t)
    \/ \E t \in ThreadIds : ThreadStudent(t)
    \/ \E t \in ThreadIds : ThreadHandUpdate(t)
    \/ \E t \in ThreadIds : ThreadHandAttribute(t)
    \/ \E t \in ThreadIds : ThreadFace(t)
    \/ ConcWebStart(TRUE)
    \/ ConcStop
    \/ ReportStep

SpecOverlap == InitOverlap /\ [][NextOverlap]_vars

----------------------------------------------------------------------------
\* Registration: the management menu (student_management.py, shell "cli"),
\* the Register window of the desktop and the /register form of the web
\* shell on a fresh installation.  A students row keeps student_id and
\* name; email and class_name are stored beside name in the same row.

\* What the person at the keyboard types as student_id and as name
TypedIds == Students \cup {""}
TypedNames == {"Ann", "Bob"}

HasRow(rows, student_id) == \E i \in 1..Len(rows) : rows[i].student_id = student_id

\* Faulty variant: INSERT OR REPLACE, a later registration overwrites the row
add_student_Replace(rows, student_id, name) ==
    [ok |-> TRUE,
     message |-> "Student added successfully!",
     rows |-> IF HasRow(rows, student_id)
              THEN [i \in 1..Len(rows) |->
                       IF rows[i].student_id = student_id
                       THEN [student_id |-> student_id, name |-> name]
                       ELSE rows[i]]
              ELSE Append(rows, [student_id |-> student_id, name |-> name])]

\* DatabaseManager.add_student: INSERT into a table with student_id UNIQUE;
\* sqlite3.IntegrityError becomes (False, "Student ID already exists!")
add_student(rows, student_id, name) ==
    IF HasRow(rows, student_id)
    THEN [ok |-> FALSE, message |-> "Student ID already exists!", rows |-> rows]
    ELSE [ok |-> TRUE, message |-> "Student added successfully!",
          rows |-> Append(rows, [student_id |-> student_id, name |-> name])]

InitRegister == Init /\ students = {}

\* One registration: the input test of the entry point, add_student, and,
\* only after add_student has succeeded, the face capture, which appends
\* the encoding when it finds one face
RegisterStudent(entry, student_id, name, face) ==
    LET added == add_student(student_rows, student_id, name)
        typed == [op |-> "register", entry |-> entry, student_id |-> student_id,
                  name |-> name, face |-> face]
    IN  /\ IF entry # "form" /\ (student_id = "" \/ name = "")
           THEN /\ call' = typed @@ [ok |-> FALSE, message |-> "empty"]
                /\ UNCHANGED <<students, regVars>>
           ELSE IF ~added.ok
           THEN /\ call' = typed @@ [ok |-> FALSE, message |-> added.message]
                /\ UNCHANGED <<students, regVars>>
           ELSE /\ student_rows' = added.rows
                /\ students' = students \cup {student_id}
                /\ known_student_ids' = IF face THEN Append(known_student_ids, student_id)
                                                ELSE known_student_ids
                /\ call' = typed @@ [ok |-> TRUE, message |-> added.message]
        /\ UNCHANGED <<shell, thrVars, now, is_monitoring, paused, loop_alive, camera,
                       session_start_time, recVars, detVars, dbVars, session_no,
                       reports, frames_done, obsVars>>

\* StudentManagement.register_new_student: menu entry 1, face from the camera
register_new_student(student_id, name, captured) ==
    /\ shell = "cli"
    /\ RegisterStudent("camera", student_id, name, captured)

\* StudentManagement.register_student_from_image: menu entry 2
register_student_from_image(student_id, name, one_face) ==
    /\ shell = "cli"
    /\ RegisterStudent("image", student_id, name, one_face)

\* RegisterWindow.register_student: button "Capture Face & Register"
register_student(student_id, name, captured) ==
    /\ shell = "gui"
    /\ RegisterStudent("window", student_id, name, captured)

\* POST /register: add_student, then a redirect to the capture_face page,
\* which renders a template and stores no encoding
register(student_id, name) ==
    /\ shell = "web"
    /\ RegisterStudent("form", student_id, name, FALSE)

NextRegister ==
    \/ \E student_id \in TypedIds, name \in TypedNames, captured \in BOOLEAN :
          register_new_student(student_id, name, captured)
    \/ \E student_id \in TypedIds, name \in TypedNames, one_face \in BOOLEAN :
          register_student_from_image(student_id, name, one_face)
    \/ \E student_id \in TypedIds, name \in TypedNames, captured \in BOOLEAN :
          register_student(student_id, name, captured)
    \/ \E student_id \in TypedIds, name \in TypedNames : register(student_id, name)

SpecRegister == InitRegister /\ [][NextRegister]_vars

----------------------------------------------------------------------------
\* Claims

\* The record of a student before a frame: its record, or a fresh one when
\* the frame creates it
Before(id) ==
    IF id \in DOMAIN active_students THEN active_students[id] ELSE NewStudent(now)

IsFrameStep == frames_done' # frames_done

\* C1: a detector call confirms only when at least the sustain threshold
\* has passed since the episode start recorded for the current run of true
\* signals, so a run cut short by a false signal before that never confirms
\* (hand raise 1.0 s, looking away 2.0 s).
C1_ConfirmOnlyAfterSustain ==
    /\ call.op = "update" /\ call.ret =>
          /\ call.signal
          /\ call.episode_start # None
          /\ call.at - call.episode_start[1] >=
                 (IF shell = "hand_unit" THEN hand_raise_duration_threshold
                                         ELSE looking_away_threshold)
    /\ \A i \in 1..Len(hand_obs.confirmed) :
          /\ hand_obs.confirmed[i].run_start # None
          /\ hand_obs.confirmed[i].at - hand_obs.confirmed[i].run_start[1]
                 >= hand_raise_duration_threshold
    /\ \A i \in 1..Len(away_obs.confirmed) :
          /\ away_obs.confirmed[i].run_start # None
          /\ away_obs.confirmed[i].at - away_obs.confirmed[i].run_start[1]
                 >= looking_away_threshold

\* a confirmation exactly at the threshold, after an earlier run that was
\* cut short without confirming
C1_Witness ==
    /\ shell = "hand_unit"
    /\ call.op = "update" /\ call.ret
    /\ call.episode_start # None
    /\ call.episode_start[1] > 0
    /\ call.at - call.episode_start[1] = hand_raise_duration_threshold
    /\ Len(hand_obs.confirmed) = 1

\* C2: any two confirmations of one detector are at least the cooldown
\* period apart (hand raise 3.0 s, looking away 5.0 s), also across episodes.
C2_ConfirmationsSpaced ==
    /\ \A i, j \in 1..Len(hand_obs.confirmed) :
          i < j => hand_obs.confirmed[j].at - hand_obs.confirmed[i].at
                       >= hand_cooldown_period
    /\ \A i, j \in 1..Len(away_obs.confirmed) :
          i < j => away_obs.confirmed[j].at - away_obs.confirmed[i].at
                       >= face_cooldown_period

\* two confirmations in different episodes, exactly the cooldown apart
C2_Witness ==
    /\ Len(hand_obs.confirmed) = 2
    /\ hand_obs.confirmed[1].run_start # hand_obs.confirmed[2].run_start
    /\ hand_obs.confirmed[2].at - hand_obs.confirmed[1].at = hand_cooldown_period

\* C3: within one maximal run of true signals at most one call confirms;
\* after it the detector is raw-active with the episode start cleared until
\* a false signal arrives.
C3_OncePerRun ==
    /\ hand_obs.run_confirms <= 1
    /\ away_obs.run_confirms <= 1
    /\ hand_obs.run_confirms = 1 =>
          hand_detector.hand_raised /\ hand_detector.hand_raise_start_time = None
    /\ away_obs.run_confirms = 1 =>
          face_movement_detector.is_looking_away
              /\ face_movement_detector.looking_away_start_time = None

\* the signal is still true, in the same run, a full cooldown and sustain
\* threshold after the confirmation
C3_Witness ==
    /\ shell = "hand_unit"
    /\ hand_obs.run_confirms = 1
    /\ call.op = "update" /\ call.signal /\ ~call.ret
    /\ call.at - hand_obs.confirmed[Len(hand_obs.confirmed)].at
           >= hand_cooldown_period + hand_raise_duration_threshold

\* C4: every frame whose raw hand-raised signal is false, a frame without
\* any hand included, leaves the hand detector idle with its timing
\* discarded, so a confirmation only comes after the raw signal was true on
\* every frame for the sustain threshold.
C4_FalseFrameResetsDetector ==
    /\ call.op = "frame" /\ call.hand # "raised" =>
          ~hand_detector.hand_raised /\ hand_detector.hand_raise_start_time = None
    /\ \A i \in 1..Len(hand_obs.confirmed) :
          /\ hand_obs.confirmed[i].run_start # None
          /\ hand_obs.confirmed[i].at - hand_obs.confirmed[i].run_start[1]
                 >= hand_raise_duration_threshold

\* C5: within one session mark_attendance is called at most once per
\* student.
C5_AttendanceOncePerSession ==
    \A i, j \in 1..Len(attendance_log) :
        /\ attendance_log[i].student_id = attendance_log[j].student_id
        /\ attendance_log[i].session = attendance_log[j].session
        => i = j

\* a student identified three times, twice of them in one frame, with
\* one attendance call
C5_Witness ==
    /\ "s1" \in DOMAIN active_students
    /\ active_students["s1"].total_frames >= 3
    /\ Cardinality({i \in 1..Len(attendance_log) :
                       /\ attendance_log[i].student_id = "s1"
                       /\ attendance_log[i].session = session_no}) = 1

\* C6: a frame leaves the record of every student it does not identify
\* unchanged.
C6_AbsentRecordUntouched ==
    [][IsFrameStep =>
          \A id \in DOMAIN active_students :
              id \notin Range(call'.recognized_students)
                  => active_students'[id] = active_students[id]]_vars

C8_NoPoseNoSample ==
    [][IsFrameStep /\ call'.face.head_pose = None =>
          \A id \in DOMAIN active_students' :
              active_students'[id].attention_scores = Before(id).attention_scores]_vars

\* C9: one report generation emits exactly one row per record, with the
\* arithmetic mean of its samples (0 without samples) and last_seen minus
\* first_seen truncated to whole seconds; 10:00:00 to 10:05:30 with samples
\* 80, 60, 70 gives 330 and 70.
C9_ReportRows ==
    [][reports' # reports =>
          LET rows == SubSeq(behavior_logs', Len(behavior_logs) + 1, Len(behavior_logs'))
          IN  /\ Len(rows) = Cardinality(DOMAIN active_students)
              /\ \A id \in DOMAIN active_students :
                    Cardinality({i \in 1..Len(rows) : rows[i].student_id = id}) = 1
              /\ \A i \in 1..Len(rows) :
                    LET data == active_students[rows[i].student_id]
                        n == Len(data.attention_scores)
                        avg == rows[i].attention_score
                        seen == data.last_seen - data.first_seen
                    IN  /\ avg[2] > 0
                        /\ IF n = 0 THEN avg[1] = 0
                                    ELSE avg[1] * n = avg[2] * Sum(data.attention_scores)
                        /\ rows[i].total_duration * TicksPerSecond <= seen
                        /\ seen < (rows[i].total_duration + 1) * TicksPerSecond
                        /\ rows[i].hand_raises = data.hand_raises
                        /\ rows[i].looking_away_count = data.looking_away_count
              /\ LET example == BehaviorRow("s1",
                                   [NewStudent(36000 * TicksPerSecond) EXCEPT
                                       !.last_seen = 36330 * TicksPerSecond,
                                       !.attention_scores =
                                           <<Points(80), Points(60), Points(70)>>],
                                   0, 1, 1)
                 IN  /\ example.total_duration = 330
                     /\ example.attention_score = <<Points(70), 1>>]_vars

\* a report row whose mean is not a whole number of units and whose
\* duration was truncated
C9_Witness ==
    \E i \in 1..Len(behavior_logs) :
        /\ behavior_logs[i].attention_score[2] > 1
        /\ behavior_logs[i].student_id \in DOMAIN active_students
        /\ behavior_logs[i].session = session_no
        /\ LET data == active_students[behavior_logs[i].student_id]
           IN  /\ Len(data.attention_scores) = 2
               /\ behavior_logs[i].total_duration * TicksPerSecond
                      < data.last_seen - data.first_seen

\* C10: every session has exactly one report generation, at its end, so one
\* behavior-log row per student and session.
C10_OneReportPerSession ==
    /\ \A k \in 1..session_no :
          LET n == Cardinality({i \in 1..Len(reports) : reports[i] = k})
          IN  /\ n <= 1
              /\ (k < session_no \/ ~is_monitoring) => n = 1
    /\ \A i, j \in 1..Len(behavior_logs) :
          /\ behavior_logs[i].student_id = behavior_logs[j].student_id
          /\ behavior_logs[i].session = behavior_logs[j].session
          => i = j

\* C11: at most one frame update is in progress against the session
\* state at any time: no two threads are inside process_frame together.
C11_OneFrameAtATime ==
    Cardinality({t \in ThreadIds : InFrame(threads[t])}) <= 1

\* C12: once a stop request has cleared the monitoring flag, and until a
\* new session is started, no thread begins a frame update and no record
\* of the session is created or modified (the report reads the records
\* during this time).
C12_QuietAfterStop ==
    [][session_no' = session_no /\ ~is_monitoring /\ ~is_monitoring'
          => /\ active_students' = active_students
             /\ \A t \in ThreadIds : InFrame(threads'[t]) => InFrame(threads[t])]_vars

\* C13: a statistics read made while frames are processed never fails
\* because the record map changed, and what it returns is the statistics
\* of the session as they stood between two frames.
C13_StatsAtFrameBoundary ==
    /\ ~(reader.op = "failed" /\ reader.in = "stats")
    /\ reader.op = "stats_done" => reader.result \in boundaries

\* C14: while the signal stays true, the first call at which the sustain
\* threshold has passed since the episode start and the cooldown since the
\* last confirmation has cleared (or there was none) confirms; a call at
\* which the threshold has passed inside the cooldown does not confirm and
\* keeps the episode start; a first run that held for the threshold and then
\* ends has been confirmed exactly once.
C14_ConfirmWhenDue ==
    [][now' = now /\ call'.op = "update" /\ shell \in Units =>
          LET hand == shell = "hand_unit"
              raw == IF hand THEN hand_detector.hand_raised
                             ELSE face_movement_detector.is_looking_away
              start == IF hand THEN hand_detector.hand_raise_start_time
                               ELSE face_movement_detector.looking_away_start_time
              last == IF hand THEN hand_detector.last_hand_raise_time
                              ELSE face_movement_detector.last_looking_away_time
              count == IF hand THEN hand_detector.hand_raise_count
                               ELSE face_movement_detector.looking_away_count
              count_after == IF hand THEN hand_detector'.hand_raise_count
                                     ELSE face_movement_detector'.looking_away_count
              start_after == IF hand THEN hand_detector'.hand_raise_start_time
                                     ELSE face_movement_detector'.looking_away_start_time
              sustain == IF hand THEN hand_raise_duration_threshold
                                 ELSE looking_away_threshold
              cooldown == IF hand THEN hand_cooldown_period ELSE face_cooldown_period
              obs == IF hand THEN hand_obs ELSE away_obs
              due == raw /\ start # None /\ now - start[1] >= sustain
              clear == last = None \/ now - last[1] >= cooldown
          IN  /\ call'.signal /\ due /\ clear =>
                    call'.ret /\ count_after = count + 1
              /\ call'.signal /\ due /\ ~clear =>
                    ~call'.ret /\ count_after = count /\ start_after = start
              /\ (/\ ~call'.signal
                  /\ call.op = "update" /\ call.signal
                  /\ obs.run_start # None
                  /\ call.at - obs.run_start[1] >= sustain
                  /\ \A i \in 1..Len(obs.confirmed) :
                         obs.confirmed[i].run_start = obs.run_start)
                  => count_after = 1]_vars

\* a second run reached the threshold inside the cooldown of the first
\* confirmation and is confirmed by the call at which the cooldown clears
C14_Witness ==
    /\ shell = "hand_unit"
    /\ call.op = "update" /\ call.ret
    /\ Len(hand_obs.confirmed) = 2
    /\ hand_obs.confirmed[2].at = hand_obs.confirmed[1].at + hand_cooldown_period
    /\ hand_obs.confirmed[2].run_start # None
    /\ hand_obs.confirmed[2].run_start[1] > hand_obs.confirmed[1].at
    /\ hand_obs.confirmed[2].at - hand_obs.confirmed[2].run_start[1]
           > hand_raise_duration_threshold
    /\ call.episode_start = hand_obs.confirmed[2].run_start

\* C15: a detection without an identity creates no record, changes
\* last_seen and total_frames of no record, and causes no mark_attendance
\* call and no entry of attendance_marked.
C15_UnidentifiedIgnored ==
    [][IsFrameStep =>
          LET seen == call'.recognized_students
              identified == Range(seen) \ {NoId}
              times(id) == Cardinality({i \in 1..Len(seen) : seen[i] = id})
          IN  /\ DOMAIN active_students' = DOMAIN active_students \cup identified
              /\ attendance_marked' = attendance_marked \cup identified
              /\ Len(attendance_log') =
                     Len(attendance_log) + Cardinality(identified \ attendance_marked)
              /\ \A i \in 1..Len(attendance_log') :
                     attendance_log'[i].student_id # NoId
              /\ \A id \in DOMAIN active_students' :
                    /\ active_students'[id].total_frames
                           = Before(id).total_frames + times(id)
                    /\ times(id) = 0 =>
                           active_students'[id].last_seen = Before(id).last_seen]_vars

\* a frame with an unidentified face beside s2 and s1 (twice) has been
\* processed after a frame without any face: two records, two attendance
\* calls
C15_Witness ==
    /\ call.op = "frame"
    /\ NoId \in Range(call.recognized_students)
    /\ frames_done = 2
    /\ DOMAIN active_students = Students
    /\ active_students["s1"].total_frames = 2
    /\ active_students["s2"].total_frames = 1
    /\ Len(attendance_log) = 2

\* C16: within a session a record, once created, is never removed or
\* replaced by a frame, a statistics reset or a report: its key keeps its
\* place and its first_seen, and a frame, also one that identifies the
\* student again after frames without them, only adds to its counters and
\* samples.
C16_RecordPersists ==
    [][session_no' = session_no =>
          /\ Len(student_keys') >= Len(student_keys)
          /\ SubSeq(student_keys', 1, Len(student_keys)) = student_keys
          /\ \A id \in DOMAIN active_students :
                /\ id \in DOMAIN active_students'
                /\ active_students'[id].first_seen = active_students[id].first_seen
                /\ active_students'[id].last_seen >= active_students[id].last_seen
                /\ active_students'[id].total_frames >= active_students[id].total_frames
                /\ IsFrameStep =>
                      LET old == active_students[id]
                          new == active_students'[id]
                      IN  /\ new.hand_raises >= old.hand_raises
                          /\ new.looking_away_count >= old.looking_away_count
                          /\ Len(new.attention_scores) >= Len(old.attention_scores)
                          /\ SubSeq(new.attention_scores, 1, Len(old.attention_scores))
                                 = old.attention_scores]_vars

\* s1 is seen at time 0, not seen by the frame at time 1 (the first with a
\* raised hand) and seen again at time 2, after a report in between: one
\* record with the first first_seen and the samples gathered so far
C16_Witness ==
    /\ shell = "cli" /\ call.op = "frame"
    /\ call.recognized_students = <<"s1">>
    /\ frames_done = 3 /\ now = 2
    /\ Len(reports) >= 1
    /\ hand_detector.hand_raise_start_time = Some(1)
    /\ student_keys = <<"s1">>
    /\ active_students["s1"].first_seen = 0
    /\ active_students["s1"].last_seen = 2
    /\ active_students["s1"].total_frames = 2
    /\ Len(active_students["s1"].attention_scores) >= 2

\* C17: every record has last_seen >= first_seen, so no reported duration
\* is negative; a record made by the frame that first identifies the
\* student has last_seen = first_seen, and while that is so its reported
\* duration is 0.
C17_SeenOrdered ==
    [][/\ \A id \in DOMAIN active_students' :
             active_students'[id].last_seen >= active_students'[id].first_seen
       /\ \A i \in 1..Len(behavior_logs') : behavior_logs'[i].total_duration >= 0
       /\ IsFrameStep =>
             \A id \in DOMAIN active_students' \ DOMAIN active_students :
                 /\ active_students'[id].first_seen = now
                 /\ active_students'[id].last_seen = now
       /\ reports' # reports =>
             \A i \in (Len(behavior_logs) + 1)..Len(behavior_logs') :
                 LET data == active_students[behavior_logs'[i].student_id]
                 IN  data.last_seen = data.first_seen
                         => behavior_logs'[i].total_duration = 0]_vars

\* a report with s2, identified in one frame only, at duration 0 and s1,
\* identified a second later again, at duration 1
C17_Witness ==
    /\ call.op = "save"
    /\ DOMAIN active_students = Students
    /\ active_students["s2"].total_frames = 1
    /\ active_students["s1"].last_seen
           = active_students["s1"].first_seen + TicksPerSecond
    /\ \E i, j \in 1..Len(behavior_logs) :
          /\ behavior_logs[i].report = Len(reports)
          /\ behavior_logs[j].report = Len(reports)
          /\ behavior_logs[i].student_id = "s2" /\ behavior_logs[i].total_duration = 0
          /\ behavior_logs[j].student_id = "s1" /\ behavior_logs[j].total_duration = 1

\* C18: in every shell a session starts only with a non-empty roster; with
\* an empty students table the start is rejected and start time, record
\* map, attendance_marked and the monitoring flag stay as they were.
C18_StartNeedsRoster ==
    students = {} =>
        /\ ~is_monitoring
        /\ session_start_time = None
        /\ session_no = 0
        /\ active_students = <<>>
        /\ attendance_marked = {}

\* C19: a detector's episode start is set only while it is raw-active; an
\* update with a false signal and a reset leave it idle with the episode
\* start cleared.
C19_StartOnlyWhileActive ==
    [][/\ hand_detector'.hand_raise_start_time # None => hand_detector'.hand_raised
       /\ face_movement_detector'.looking_away_start_time # None
              => face_movement_detector'.is_looking_away
       /\ (/\ now' = now
           /\ \/ call'.op = "reset"
              \/ call'.op = "update" /\ ~call'.signal)
          => IF shell = "hand_unit"
             THEN /\ ~hand_detector'.hand_raised
                  /\ hand_detector'.hand_raise_start_time = None
             ELSE /\ ~face_movement_detector'.is_looking_away
                  /\ face_movement_detector'.looking_away_start_time = None]_vars

\* a reset in the middle of a timed episode
C19_Witness ==
    /\ shell = "hand_unit"
    /\ call.op = "reset"
    /\ call.episode_start # None
    /\ now > call.episode_start[1]
    /\ hand_detector = HandGestureDetector

\* C20: for every yaw and pitch of the range the attention score lies in
\* [0, 100] and does not increase when |yaw| grows at fixed pitch or |pitch|
\* grows at fixed yaw.
C20_ScoreBoundedMonotone ==
    call.op = "score" =>
        LET score == call.face_data.attention_score
            at(yaw, pitch) ==
                detect_face_movement(FaceWithPose(yaw, pitch)).attention_score
        IN  /\ 0 <= score /\ score <= Points(100)
            /\ \A yaw \in Angles :
                  abs(yaw) >= abs(call.yaw) => at(yaw, call.pitch) <= score
            /\ \A pitch \in Angles :
                  abs(pitch) >= abs(call.pitch) => at(call.yaw, pitch) <= score
            /\ at(0, 0) = Points(100)

\* yaw beyond 50 degrees, where the yaw score is clamped at 0, with pitch
\* 10: score 35
C20_Witness ==
    /\ call.op = "score"
    /\ call.yaw < 0 - 50 /\ call.pitch = 10
    /\ call.face_data.attention_score = Points(35)
    /\ call.face_data.looking_away

\* C21: with the default thresholds looking_away is true exactly when
\* |yaw| > 20 or |pitch| > 15; both comparisons are strict.
C21_LookingAwayIff ==
    call.op = "score" =>
        (call.face_data.looking_away <=> (abs(call.yaw) > 20 \/ abs(call.pitch) > 15))

\* yaw = 20 with pitch = 15, both on the threshold: not looking away
C21_Witness ==
    /\ call.op = "score"
    /\ call.yaw = 20 /\ call.pitch = 15
    /\ ~call.face_data.looking_away

\* C22 (as the code and the scorer's formula have it): pose (yaw = 30,
\* pitch = 0) gives looking_away and attention_score (40 + 100) / 2 = 70.
C22_Pose30Scores70 ==
    call.op = "score" /\ call.yaw = 30 /\ call.pitch = 0 =>
        /\ call.face_data.looking_away
        /\ call.face_data.attention_score = Points(70)

\* the scorer has been applied to the pose (30, 0)
C22_Witness ==
    /\ call.op = "score"
    /\ call.yaw = 30 /\ call.pitch = 0
    /\ call.face_data.face_detected

\* C22 as stated: pose (yaw = 30, pitch = 0) gives looking_away and
\* attention_score 40.
C22_Pose30Scores40 ==
    call.op = "score" /\ call.yaw = 30 /\ call.pitch = 0 =>
        /\ call.face_data.looking_away
        /\ call.face_data.attention_score = Points(40)

\* C23: a report generated before any frame has been processed completes
\* and appends no behavior-log row; the report method invoked before any
\* session was started changes nothing.
C23_EmptyReport ==
    [][LET invoked == /\ now' = now
                      /\ \/ call'.op \in {"report", "save", "quit"}
                         \/ call'.op = "read_fail" /\ shell = "cli"
                         \/ call'.op = "stop" /\ call'.accepted
       IN  /\ (invoked /\ session_start_time = None)
                => UNCHANGED <<shellVars, recVars, detVars, dbVars, session_no,
                               reports, frames_done>>
           /\ (invoked /\ session_start_time # None /\ frames_done = 0)
                => /\ reports' = Append(reports, session_no)
                   /\ behavior_logs' = behavior_logs]_vars

\* a session was started and its report has run without any frame
C23_Witness ==
    /\ frames_done = 0
    /\ session_no = 1
    /\ reports = <<1>>
    /\ behavior_logs = <<>>
    /\ call.op = "read_fail"

\* C24: a raise has been confirmed and the raw hand signal has been false
\* on a frame since; a frame with the hand raised, on which the current
\* raw-true run has lasted the sustain threshold and the cooldown since the
\* last confirmation has passed, confirms the run: the count and every
\* record's hand_raises go up by one.
C24_SecondRaiseCounted ==
    [][/\ now' = now /\ call'.op = "frame" /\ call'.hand = "raised"
       /\ hand_obs.confirmed # <<>>
       /\ hand_obs.run_start # None /\ hand_obs.run_confirms = 0
       /\ now - hand_obs.run_start[1] >= hand_raise_duration_threshold
       /\ now - hand_obs.confirmed[Len(hand_obs.confirmed)].at >= hand_cooldown_period
       => /\ hand_detector'.hand_raise_count = hand_detector.hand_raise_count + 1
          /\ \A id \in DOMAIN active_students :
                active_students'[id].hand_raises = active_students[id].hand_raises + 1]_vars

\* C25: once the frame loop of a started session has terminated, the
\* session has its report: the report generator runs with the end of the
\* loop, whatever ended it, and needs no further user action.
C25_LoopEndReports ==
    LET loop_ended == IF shell = "gui" THEN ~loop_alive ELSE ~is_monitoring
    IN  shell \in Shells /\ session_no >= 1 /\ loop_ended
            => session_no \in Range(reports)

\* C26: on one calendar date mark_attendance is called at most once per
\* student, over all sessions of the process, so the stored time_in of
\* (student, date) is that of the first detection of the day.
C26_AttendanceOncePerDay ==
    \A i, j \in 1..Len(attendance_log) :
        /\ attendance_log[i].student_id = attendance_log[j].student_id
        /\ attendance_log[i].date = attendance_log[j].date
        /\ i <= j
        => /\ i = j
           /\ AttendanceRow(attendance_log, attendance_log[i].student_id,
                            attendance_log[i].date)
                  = Some(attendance_log[i].time_in)

\* C27: between frames the attendance ledger is the set of identities
\* that have a record, and each of them has one attendance call in the
\* session, made in the frame that created the record: it carries the date
\* and the time of day of the record's first_seen.
C27_AttendanceWithRecord ==
    /\ attendance_marked = DOMAIN active_students
    /\ \A id \in DOMAIN active_students :
          LET calls == {i \in 1..Len(attendance_log) :
                           /\ attendance_log[i].student_id = id
                           /\ attendance_log[i].session = session_no}
          IN  /\ Cardinality(calls) = 1
              /\ \A i \in calls :
                    /\ attendance_log[i].date = DateOf(active_students[id].first_seen)
                    /\ attendance_log[i].time_in
                           = TimeOfDay(active_students[id].first_seen)

\* s1 first seen one second into the session and seen again later: one
\* attendance call, with the time of the first sighting
C27_Witness ==
    /\ "s1" \in DOMAIN active_students
    /\ active_students["s1"].first_seen = TicksPerSecond
    /\ active_students["s1"].last_seen > active_students["s1"].first_seen
    /\ \E i \in 1..Len(attendance_log) :
          /\ attendance_log[i].student_id = "s1"
          /\ attendance_log[i].time_in = 1

\* C28: a frame gives every student it identifies a record if there is
\* none (first_seen = last_seen = frame time, counters 0, no samples,
\* total_frames 0), then sets last_seen to the frame time and adds exactly
\* one to total_frames; it leaves total_frames of the other records and
\* first_seen of every record as they were.
C28_OneFramePerSighting ==
    [][IsFrameStep =>
          LET identified == Range(call'.recognized_students) \ {NoId}
          IN  /\ identified \subseteq DOMAIN active_students'
              /\ \A id \in DOMAIN active_students' :
                    /\ active_students'[id].first_seen = Before(id).first_seen
                    /\ IF id \in identified
                       THEN /\ active_students'[id].last_seen = now
                            /\ active_students'[id].total_frames
                                   = Before(id).total_frames + 1
                       ELSE /\ active_students'[id].last_seen = Before(id).last_seen
                            /\ active_students'[id].total_frames
                                   = Before(id).total_frames]_vars

\* C29: a frame with a pose appends that frame's attention score, once,
\* to attention_scores of every record of the map, records created in the
\* frame included, behind the samples already there; within a session
\* only a statistics reset shortens or rewrites the samples of a record.
C29_OneSamplePerPoseFrame ==
    [][/\ (IsFrameStep /\ call'.face.head_pose # None) =>
             \A id \in DOMAIN active_students' :
                 active_students'[id].attention_scores
                     = Append(Before(id).attention_scores,
                              detect_face_movement(call'.face).attention_score)
       /\ (session_no' = session_no /\ call'.op # "reset") =>
             \A id \in DOMAIN active_students :
                 LET old == active_students[id].attention_scores
                     new == active_students'[id].attention_scores
                 IN  Len(new) >= Len(old) /\ SubSeq(new, 1, Len(old)) = old]_vars

\* two frames with different poses: s1, created in the first, has both
\* scores in order, s2, created in the second, has the second score
C29_Witness ==
    /\ call.op = "frame" /\ call.face.head_pose # None
    /\ DOMAIN active_students = Students
    /\ Len(active_students["s1"].attention_scores) = 2
    /\ active_students["s1"].attention_scores[1] # active_students["s1"].attention_scores[2]
    /\ active_students["s2"].attention_scores
           = <<active_students["s1"].attention_scores[2]>>

\* C30: a frame in which no face is detected leaves the looking-away
\* detector (raw state, episode start, last confirmation, count) and the
\* looking_away_count of every record as they were.
C30_NoFaceSkipsDetector ==
    [][IsFrameStep /\ ~call'.face.face =>
          /\ face_movement_detector' = face_movement_detector
          /\ \A id \in DOMAIN active_students' :
                active_students'[id].looking_away_count = Before(id).looking_away_count]_vars

\* a looking-away episode begun at time 0 is still in progress, with its
\* start time, after a later frame without a face
C30_Witness ==
    /\ call.op = "frame" /\ ~call.face.face
    /\ now > 0
    /\ face_movement_detector.is_looking_away
    /\ face_movement_detector.looking_away_start_time = Some(0)

\* C31: the rows of a session's report are emitted while the camera is
\* still held: the release of the camera never precedes them.
C31_ReportBeforeRelease ==
    [][behavior_logs' # behavior_logs => camera = "open"]_vars

\* C32: a report generation leaves the record map, the attendance ledger,
\* both detectors and the session start time as they were; a report that
\* follows another with no frame, reset or start in between emits the
\* same rows again.
C32_ReportReadsOnly ==
    [][reports' # reports =>
          LET RowsOf(n) ==
                  LET OfReport(row) == row.report = n
                      emitted == SelectSeq(behavior_logs', OfReport)
                  IN  [i \in 1..Len(emitted) |-> [emitted[i] EXCEPT !.report = 0]]
          IN  /\ UNCHANGED <<recVars, detVars, session_start_time, attendance_log>>
              /\ call.op = "save" => RowsOf(Len(reports')) = RowsOf(Len(reports))]_vars

\* key 's' twice: two reports with the same row of s1, whose record has
\* samples
C32_Witness ==
    /\ call.op = "save"
    /\ Len(reports) = 2
    /\ Len(behavior_logs) = 2
    /\ behavior_logs[1].student_id = "s1"
    /\ behavior_logs[1].attention_score # Frac(0, 1)
    /\ [behavior_logs[2] EXCEPT !.report = 1] = behavior_logs[1]

\* C33: right after an accepted start of a desktop or web session the
\* record map and the attendance ledger are empty and both detectors are
\* as constructed.
C33_StartIsFresh ==
    (shell \in {"gui", "web"} /\ call.op = "start" /\ call.accepted) =>
        /\ active_students = <<>>
        /\ attendance_marked = {}
        /\ hand_detector = HandGestureDetector
        /\ face_movement_detector = FaceMovementDetector

C35_ResetIsFresh ==
    [][(now' = now /\ shell \in {"hand_unit", "face_unit"}) =>
          LET hand == shell = "hand_unit"
              obs == IF hand THEN hand_obs ELSE away_obs
              after == IF hand THEN hand_obs' ELSE away_obs'
              sustain == IF hand THEN hand_raise_duration_threshold
                                 ELSE looking_away_threshold
          IN  /\ call'.op = "reset" =>
                    IF hand THEN hand_detector' = HandGestureDetector
                            ELSE face_movement_detector' = FaceMovementDetector
              /\ (call'.op = "update" /\ call'.ret) =>
                    LET last == after.confirmed[Len(after.confirmed)]
                    IN  /\ last.run_start # None
                        /\ last.at - last.run_start[1] >= sustain
              /\ (/\ call'.op = "update" /\ call'.signal
                  /\ obs.confirmed = <<>>
                  /\ obs.run_start # None
                  /\ now - obs.run_start[1] >= sustain) => call'.ret]_vars

\* a reset inside the cooldown of the confirmation made before it
C35_Witness ==
    /\ shell = "hand_unit"
    /\ call.op = "reset"
    /\ call.last_confirmed # None
    /\ now - call.last_confirmed[1] < hand_cooldown_period
    /\ hand_detector = HandGestureDetector

\* C36: no record counts more hand raises than the hand detector has
\* confirmed, nor more looking-away episodes than the face detector has.
C36_RecordsWithinDetectors ==
    \A id \in DOMAIN active_students :
        /\ active_students[id].hand_raises <= hand_detector.hand_raise_count
        /\ active_students[id].looking_away_count
               <= face_movement_detector.looking_away_count

\* C37: in the web shell a start request during a session is rejected and
\* changes nothing of the session, a stop request outside a session is
\* rejected and appends no behavior-log row, and the k-th accepted stop
\* reports the k-th accepted start and no other.
C37_WebStartStop ==
    [][(now' = now /\ shell = "web") =>
          /\ (call'.op = "start" /\ is_monitoring) =>
                /\ ~call'.accepted
                /\ UNCHANGED <<is_monitoring, camera, session_start_time, recVars,
                               detVars, dbVars, session_no, reports>>
          /\ (call'.op = "stop" /\ ~is_monitoring) =>
                /\ ~call'.accepted
                /\ UNCHANGED <<is_monitoring, camera, session_start_time, recVars,
                               detVars, dbVars, session_no, reports>>
          /\ (call'.op = "stop" /\ is_monitoring) =>
                /\ call'.accepted
                /\ reports' = Append(reports, session_no)
                /\ Len(reports') = session_no
                /\ Len(behavior_logs') = Len(behavior_logs) + Len(student_keys)
                /\ \A i \in Len(behavior_logs) + 1..Len(behavior_logs') :
                      /\ behavior_logs'[i].session = session_no
                      /\ behavior_logs'[i].report = session_no]_vars

\* a start request rejected in the middle of a session that has a record
\* and an open episode
C37_Witness ==
    /\ shell = "web"
    /\ call.op = "start" /\ ~call.accepted
    /\ is_monitoring
    /\ session_no = 1
    /\ "s1" \in DOMAIN active_students
    /\ hand_detector.hand_raised

\* C38: a registration for a student who is in the students table without
\* a face encoding, in which the camera or the image delivers one face,
\* stores the encoding of that student.
C38_RetryStoresEncoding ==
    [][(/\ call'.op = "register"
        /\ call'.face
        /\ HasRow(student_rows, call'.student_id)
        /\ \A i \in 1..Len(known_student_ids) :
              known_student_ids[i] # call'.student_id)
          => \E i \in 1..Len(known_student_ids') :
                known_student_ids'[i] = call'.student_id]_vars

\* C39: add_student for a student_id that has a row answers (False,
\* 'Student ID already exists!') and changes no row; the table never holds
\* two rows of one student_id and no row is ever changed or removed.
C39_FirstRegistrationKept ==
    [][call'.op = "register" =>
          /\ (call'.message # "empty" /\ HasRow(student_rows, call'.student_id)) =>
                /\ ~call'.ok
                /\ call'.message = "Student ID already exists!"
                /\ student_rows' = student_rows
          /\ Len(student_rows') >= Len(student_rows)
          /\ \A i \in 1..Len(student_rows) : student_rows'[i] = student_rows[i]
          /\ \A i, j \in 1..Len(student_rows') :
                student_rows'[i].student_id = student_rows'[j].student_id => i = j]_vars

\* s1 registered as Ann; a second add_student for s1 as Bob was refused
C39_Witness ==
    /\ call.op = "register"
    /\ call.student_id = "s1" /\ call.name = "Bob"
    /\ ~call.ok
    /\ call.message = "Student ID already exists!"
    /\ student_rows = <<[student_id |-> "s1", name |-> "Ann"]>>

====
